---- MODULE Spec2Model ----
(***************************************************************************)
(* dddns: the `update` command (cmd/update.go), the configuration loader   *)
(* (internal/config), the permission gate of the root command              *)
(* (cmd/root.go), the Route53 client and the public-IP / proxy helpers,    *)
(* as a state machine.  One invocation of the program is a process p that  *)
(* walks through the steps of runUpdate; the cache file and the Route53 A  *)
(* record are the state that survives between invocations.                 *)
(*                                                                         *)
(* Strings the code cuts apart (file contents, paths, HTTP bodies) are     *)
(* sequences of tokens; Concat turns a token sequence into the string.     *)
(***************************************************************************)
EXTENDS Integers, Sequences, FiniteSets, TLC

(* ---------------------------------------------------------------- bounds *)
\* number of invocations started in one behaviour (also the clock's range)
MaxRuns == 2

(* ------------------------------------------------------------- constants *)
\* internal/constants: 0600 and 0400, written in decimal
ConfigFilePerm == 384
SecureConfigPerm == 256
\* two other modes a file can have: 0644 and 0755
Mode0644 == 420
Mode0755 == 493
\* Config defaults set by Load
DefaultTTL == 300

Procs == {1, 2}
\* the processes of the sequential specification: one invocation at a time
SeqProcs == {1}

IPv4s == {"1.1.1.1", "2.2.2.2"}
IPv6s == {"2001:db8::1"}
NoRecord == "none"

(* ------------------------------------------------------- string helpers *)
RECURSIVE Concat(_)
Concat(toks) == IF toks = <<>> THEN "" ELSE Head(toks) \o Concat(Tail(toks))

WhiteSpace == {" ", "\n", "\t", "\r"}

RECURSIVE TrimLeft(_, _)
TrimLeft(toks, cut) ==
  IF toks # <<>> /\ Head(toks) \in cut THEN TrimLeft(Tail(toks), cut) ELSE toks

RECURSIVE TrimRight(_, _)
TrimRight(toks, cut) ==
  IF toks # <<>> /\ toks[Len(toks)] \in cut
  THEN TrimRight(SubSeq(toks, 1, Len(toks) - 1), cut) ELSE toks

\* strings.Trim(s, cutset)
Trim(toks, cut) == TrimRight(TrimLeft(toks, cut), cut)
\* strings.TrimSpace
TrimSpace(toks) == Trim(toks, WhiteSpace)

\* net.ParseIP(s) != nil : IPv4 dotted quads and IPv6 literals both parse
ParseIP(s) == s \in IPv4s \cup IPv6s

\* strings.LastIndex(path, "/") on a token sequence, 0-based, -1 if absent
RECURSIVE LastIndex(_, _)
LastIndex(toks, sep) ==
  IF toks = <<>> THEN -1
  ELSE IF toks[Len(toks)] = sep THEN Len(toks) - 1
  ELSE LastIndex(SubSeq(toks, 1, Len(toks) - 1), sep)

(* ------------------------------------------------------------ cache file *)
\* a file is [exists, lines]; lines is the content split at "\n"
AbsentFile == [exists |-> FALSE, lines |-> <<>>]
\* what os.WriteFile leaves when it fails after opening with O_TRUNC
EmptyFile == [exists |-> TRUE, lines |-> << <<>> >>]
LegacyFile(ip) == [exists |-> TRUE, lines |-> << <<ip>>, <<>> >>]

\* time.Now().Format(time.RFC3339) at clock value t
Timestamp(t) == "T" \o ToString(t)

\* fmt.Sprintf("last_known_ip: %s\nlast_updated: %s\n", ip, now), split at "\n"
CacheContent(ip, t) ==
  << <<"last_known_ip:", " ", ip>>, <<"last_updated:", " ", Timestamp(t)>>, <<>> >>

HasPrefix(line, pre) == line # <<>> /\ Head(line) = pre

RECURSIVE ScanLines(_)
ScanLines(lines) ==
  IF lines = <<>> THEN [found |-> FALSE, ip |-> ""]
  ELSE IF HasPrefix(Head(lines), "last_known_ip:")
       THEN [found |-> TRUE, ip |-> Concat(TrimSpace(Tail(Head(lines))))]
       ELSE ScanLines(Tail(lines))

\* the whole content again as one token sequence ("\n" between the lines)
RECURSIVE JoinLines(_)
JoinLines(lines) ==
  IF lines = <<>> THEN <<>>
  ELSE IF Len(lines) = 1 THEN Head(lines)
  ELSE Head(lines) \o <<"\n">> \o JoinLines(Tail(lines))

\* faulty variant of readCachedIP: the legacy format is not read
readCachedIP_NoLegacy(f) ==
  IF ~f.exists THEN "" ELSE ScanLines(f.lines).ip

\* readCachedIP(path): "" when the file cannot be read
readCachedIP(f) ==
  IF ~f.exists THEN ""
  ELSE LET s == ScanLines(f.lines)
           ip == Concat(TrimSpace(JoinLines(f.lines)))
       IN IF s.found THEN s.ip
          ELSE IF ParseIP(ip) THEN ip ELSE ""

\* outcomes of the two file-system calls of writeCachedIP
FsOutcomes == {"ok", "mkdirFail", "writeFailKeep", "writeFailTrunc"}

\* faulty variant of writeCachedIP: the directory is made but the file is not written
writeCachedIP_NoWrite(f, path, ip, t, fs) ==
  LET idx == LastIndex(path, "/") IN
  IF idx < 0 THEN [res |-> "panic", file |-> f]
  ELSE IF fs = "mkdirFail" THEN [res |-> "err", file |-> f]
  ELSE [res |-> "ok", file |-> f]

\* writeCachedIP(path, ip): [res, file] with res "ok", "err" or "panic"
writeCachedIP(f, path, ip, t, fs) ==
  LET idx == LastIndex(path, "/") IN
  IF idx < 0 THEN [res |-> "panic", file |-> f]
  ELSE IF fs = "mkdirFail" THEN [res |-> "err", file |-> f]
  ELSE IF fs = "writeFailKeep" THEN [res |-> "err", file |-> f]
  ELSE IF fs = "writeFailTrunc" THEN [res |-> "err", file |-> EmptyFile]
  ELSE [res |-> "ok", file |-> [exists |-> TRUE, lines |-> CacheContent(ip, t)]]

(* ------------------------------------------------ device-bound credentials *)
\* the salt appended to the device identifier
Salt == "dddns-vault-2025"
\* the number of characters kept of a Docker container id
ContainerIDChars == 12

\* a Linux machine as GetDeviceKey reads it: the lines of
\* /proc/ubnthal/system.info as <<prefix, rest>>, the last path element of the
\* first docker line of /proc/self/cgroup in characters, the MAC address of
\* eth0, os.Hostname() and its failure, $USER and $USERNAME
BareMachine ==
  [systemInfo |-> <<>>, containerID |-> <<>>, mac |-> "", hostname |-> "box",
   hostErr |-> FALSE, user |-> "", username |-> ""]

UDM(serial) == [BareMachine EXCEPT !.systemInfo = << <<"serialno=", serial>> >>,
                                   !.mac = "aa:bb", !.user = "root"]
UDMHashOnly(hash) ==
  [BareMachine EXCEPT !.systemInfo = << <<"board=", "x">>, <<"device.hashid=", hash>> >>]
Container(last) ==
  [BareMachine EXCEPT !.containerID =
     <<"0", "1", "2", "3", "4", "5", "6", "7", "8", "9", "a", "b", last>>]

\* the first serialno= or device.hashid= line of system.info
SystemInfoID(lines) ==
  LET hits == { i \in 1..Len(lines) : lines[i][1] \in {"serialno=", "device.hashid="} }
  IN IF hits = {} THEN ""
     ELSE lines[CHOOSE i \in hits : \A j \in hits : i <= j][2]

\* s[:n] for a string no shorter than that, else s
Truncate(toks, n) == IF Len(toks) > n THEN SubSeq(toks, 1, n) ELSE toks

\* the deviceID of GetDeviceKey on Linux, before the last resort
PlatformID(d) ==
  IF SystemInfoID(d.systemInfo) # "" THEN SystemInfoID(d.systemInfo)
  ELSE IF d.containerID # <<>> THEN Concat(Truncate(d.containerID, ContainerIDChars))
  ELSE d.mac

\* sha256.Sum256, as the one-to-one function it is taken to be
Sha256(x) == <<"sha256", x>>

\* the deviceID of GetDeviceKey: [err, id]
DeviceID(d) ==
  IF PlatformID(d) # "" THEN [err |-> "", id |-> PlatformID(d)]
  ELSE IF d.hostErr THEN [err |-> "failed to get device identifier", id |-> ""]
  ELSE IF d.user # "" THEN [err |-> "", id |-> d.hostname \o "-" \o d.user]
  ELSE IF d.username # "" THEN [err |-> "", id |-> d.hostname \o "-" \o d.username]
  ELSE [err |-> "", id |-> d.hostname]

\* faulty variant of GetDeviceKey: the key is derived from the salt alone
GetDeviceKey_SaltOnly(d) ==
  IF DeviceID(d).err # "" THEN [err |-> DeviceID(d).err, key |-> <<>>]
  ELSE [err |-> "", key |-> Sha256(Salt)]

\* GetDeviceKey(): [err, key]
GetDeviceKey(d) ==
  IF DeviceID(d).err # "" THEN [err |-> DeviceID(d).err, key |-> <<>>]
  ELSE [err |-> "", key |-> Sha256(DeviceID(d).id \o Salt)]

\* the values rand.Reader fills the nonce with
Nonces == {"n1", "n2"}

\* a vault string: base64 text of nonce || AES-GCM(key, nonce, plaintext), or
\* text that is not base64; short is a byte string shorter than a nonce, and
\* intact is lost when a byte of the sealed text is changed
NoBytes == [short |-> TRUE, nonce |-> "", key |-> <<>>, pt |-> <<>>, intact |-> FALSE]
NoVault == [b64 |-> FALSE, bytes |-> NoBytes]

\* gcm.Seal(nonce, nonce, plaintext, nil)
Seal(key, nonce, pt) ==
  [short |-> FALSE, nonce |-> nonce, key |-> key, pt |-> pt, intact |-> TRUE]

\* base64.StdEncoding.EncodeToString / DecodeString
Base64Encode(bytes) == [b64 |-> TRUE, bytes |-> bytes]
Base64Decode(v) ==
  IF v.b64 THEN [err |-> "", bytes |-> v.bytes]
  ELSE [err |-> "illegal base64 data", bytes |-> NoBytes]

\* index of the first token equal to sep, 0 if there is none
Index(toks, sep) ==
  LET hits == { i \in 1..Len(toks) : toks[i] = sep }
  IN IF hits = {} THEN 0 ELSE CHOOSE i \in hits : \A j \in hits : i <= j

\* strings.SplitN(s, sep, 2)
SplitN2(toks, sep) ==
  LET i == Index(toks, sep)
  IN IF i = 0 THEN <<toks>>
     ELSE <<SubSeq(toks, 1, i - 1), SubSeq(toks, i + 1, Len(toks))>>

\* EncryptCredentials(accessKey, secretKey) on machine d: [err, vault]
EncryptCredentials(accessKey, secretKey, d, nonce) ==
  LET k == GetDeviceKey(d) IN
  IF k.err # "" THEN [err |-> k.err, vault |-> NoVault]
  ELSE [err |-> "",
        vault |-> Base64Encode(Seal(k.key, nonce, accessKey \o <<":">> \o secretKey))]

\* DecryptCredentials(encrypted) on machine d: [err, accessKey, secretKey]
DecryptCredentials(encrypted, d) ==
  LET k == GetDeviceKey(d)
      dec == Base64Decode(encrypted)
      parts == SplitN2(dec.bytes.pt, ":")
      failed(e) == [err |-> e, accessKey |-> <<>>, secretKey |-> <<>>]
  IN IF k.err # "" THEN failed(k.err)
     ELSE IF dec.err # "" THEN failed(dec.err)
     ELSE IF dec.bytes.short THEN failed("ciphertext too short")
     ELSE IF dec.bytes.key # k.key \/ ~dec.bytes.intact
     THEN failed("cipher: message authentication failed")
     ELSE IF Len(parts) # 2 THEN failed("invalid credential format")
     ELSE [err |-> "", accessKey |-> parts[1], secretKey |-> parts[2]]

\* the machine the invocations run on, and another one
ThisDevice == UDM("SN1")
OtherDevice == UDM("SN2")

(* --------------------------------------------------------- configuration *)
CachePathAbs == <<"/", "data", "/", "last-ip.txt">>
\* the same file named without a directory part (relative to the working directory)
CachePathBare == <<"last-ip.txt">>

\* no configuration file was resolved
NoFile ==
  [kind |-> "none", exists |-> FALSE, mode |-> 0, access |-> "", secret |-> "",
   vault |-> NoVault, zone |-> "", hostname |-> "", ttl |-> 0, cachePath |-> CachePathAbs,
   skipProxy |-> FALSE, dry_run |-> FALSE, force_update |-> FALSE]

\* the command-line flags of `update`; "unset" is a flag not given
NoConfig ==
  [AWSAccessKey |-> "", AWSSecretKey |-> "", HostedZoneID |-> "", Hostname |-> "",
   TTL |-> 0, IPCacheFile |-> <<>>, SkipProxy |-> FALSE, ForceUpdate |-> FALSE,
   DryRun |-> FALSE]

NoFlags == [dryRun |-> "unset", force |-> "unset", ip |-> "", quiet |-> FALSE]

\* faulty variant of checkConfigPermissions: only executable files are refused
checkConfigPermissions_ExecOnly(f) ==
  IF ~f.exists THEN "cannot stat config file"
  ELSE IF f.mode = Mode0755 THEN "insecure permissions"
  ELSE ""

\* checkConfigPermissions(path): "" is nil
checkConfigPermissions(f) ==
  IF ~f.exists THEN "cannot stat config file"
  ELSE IF f.mode # ConfigFilePerm /\ f.mode # SecureConfigPerm THEN "insecure permissions"
  ELSE ""

\* initConfig: "" when the process goes on to the subcommand, else the
\* message printed before os.Exit(1)
initConfig(f) ==
  IF f.kind = "secure" /\ ~f.exists THEN "config file not found"
  ELSE IF f.kind # "none" THEN checkConfigPermissions(f)
  ELSE ""

\* LoadSecure(path) on machine d: the Config literal it returns sets neither
\* ForceUpdate nor DryRun
LoadSecureOn(f, d) ==
  LET c == DecryptCredentials(f.vault, d) IN
  IF ~f.exists THEN [err |-> "cannot stat config file", cfg |-> NoConfig]
  ELSE IF f.mode # ConfigFilePerm /\ f.mode # SecureConfigPerm
  THEN [err |-> "insecure permissions", cfg |-> NoConfig]
  ELSE IF c.err # "" THEN [err |-> "failed to decrypt credentials", cfg |-> NoConfig]
  ELSE [err |-> "",
        cfg |-> [AWSAccessKey |-> Concat(c.accessKey), AWSSecretKey |-> Concat(c.secretKey),
                 HostedZoneID |-> f.zone, Hostname |-> f.hostname, TTL |-> f.ttl,
                 IPCacheFile |-> f.cachePath, SkipProxy |-> f.skipProxy,
                 ForceUpdate |-> FALSE, DryRun |-> FALSE]]

\* LoadSecure(path) in the invocations that are followed
LoadSecure(f) == LoadSecureOn(f, ThisDevice)

\* viper.IsSet / viper.GetBool of a bound flag
FlagIsSet(fl) == fl # "unset"
FlagBool(fl) == fl = "true"

\* Load(): defaults, overlaid by the file, overridden by the flags that are set
Load(f, fl) ==
  IF f.kind = "secure" THEN LoadSecure(f)
  ELSE LET base == IF f.kind = "none"
                   THEN [AWSAccessKey |-> "", AWSSecretKey |-> "", HostedZoneID |-> "",
                         Hostname |-> "", TTL |-> DefaultTTL, IPCacheFile |-> CachePathAbs,
                         SkipProxy |-> FALSE, ForceUpdate |-> FALSE, DryRun |-> FALSE]
                   ELSE [AWSAccessKey |-> f.access, AWSSecretKey |-> f.secret,
                         HostedZoneID |-> f.zone, Hostname |-> f.hostname, TTL |-> f.ttl,
                         IPCacheFile |-> f.cachePath, SkipProxy |-> f.skipProxy,
                         ForceUpdate |-> f.force_update, DryRun |-> f.dry_run]
       IN [err |-> "",
           cfg |-> [base EXCEPT
                      !.ForceUpdate = IF FlagIsSet(fl.force) THEN FlagBool(fl.force) ELSE @,
                      !.DryRun = IF FlagIsSet(fl.dryRun) THEN FlagBool(fl.dryRun) ELSE @]]

\* faulty variant of Validate: a TTL of zero passes
Validate_ZeroTTL(c) ==
  IF c.AWSAccessKey = "" THEN "aws_access_key is required in config file"
  ELSE IF c.AWSSecretKey = "" THEN "aws_secret_key is required in config file"
  ELSE IF c.HostedZoneID = "" THEN "hosted_zone_id is required"
  ELSE IF c.Hostname = "" THEN "hostname is required"
  ELSE IF c.TTL < 0 THEN "ttl must be positive"
  ELSE ""

\* Config.Validate(): "" is nil
Validate(c) ==
  IF c.AWSAccessKey = "" THEN "aws_access_key is required in config file"
  ELSE IF c.AWSSecretKey = "" THEN "aws_secret_key is required in config file"
  ELSE IF c.HostedZoneID = "" THEN "hosted_zone_id is required"
  ELSE IF c.Hostname = "" THEN "hostname is required"
  ELSE IF c.TTL <= 0 THEN "ttl must be positive"
  ELSE ""

\* faulty variant of LoadAndValidate: the configuration is not validated
LoadAndValidate_LoadOnly(f, fl) == Load(f, fl)

\* the opening of runUpdate and of runVerify: config.Load(), then
\* cfg.Validate(); the first error is the one returned
LoadAndValidate(f, fl) ==
  LET l == Load(f, fl) IN
  IF l.err # "" THEN l ELSE [err |-> Validate(l.cfg), cfg |-> l.cfg]

\* logInfo(format, ...): prints unless quiet
logInfo(q, msg) == IF q THEN {} ELSE {msg}
\* log.Printf(format, ...)
logPrintf(msg) == {msg}

(* ------------------------------------------------------------ the inputs *)
\* command lines of `update`
FlagSets ==
  [dryRun : {"unset", "true"}, force : {"unset", "true"},
   ip : {"", "1.1.1.1"}, quiet : BOOLEAN] \cup
  [dryRun : {"false"}, force : {"false"}, ip : {"1.1.1.1"}, quiet : {FALSE}] \cup
  [dryRun : {"unset"}, force : {"unset"}, ip : {"bogus"}, quiet : BOOLEAN]

\* a complete configuration file of the given kind, at the mode its writer gives it
GoodFile(kind) ==
  [kind |-> kind, exists |-> TRUE,
   mode |-> IF kind = "secure" THEN SecureConfigPerm ELSE ConfigFilePerm,
   access |-> IF kind = "secure" THEN "" ELSE "AKIA",
   secret |-> IF kind = "secure" THEN "" ELSE "wJal",
   vault |-> IF kind = "secure"
             THEN EncryptCredentials(<<"AKIA">>, <<"wJal">>, ThisDevice, "n1").vault
             ELSE NoVault,
   zone |-> "Z123",
   hostname |-> "home.example.com", ttl |-> DefaultTTL,
   cachePath |-> CachePathAbs, skipProxy |-> FALSE,
   dry_run |-> FALSE, force_update |-> FALSE]

\* configuration files an invocation can be pointed at
ConfigFiles ==
  {NoFile}
  \cup { [GoodFile(k) EXCEPT !.skipProxy = sp] :
           k \in {"plain", "secure"}, sp \in BOOLEAN }
  \cup { [GoodFile(k) EXCEPT !.cachePath = CachePathBare, !.skipProxy = TRUE] :
           k \in {"plain", "secure"} }
  \cup { [GoodFile(k) EXCEPT !.mode = m] :
           k \in {"plain", "secure"}, m \in {Mode0644, Mode0755} }
  \cup { [GoodFile(k) EXCEPT !.exists = FALSE] : k \in {"plain", "secure"} }
  \cup { [GoodFile(k) EXCEPT !.hostname = "", !.ttl = t] :
           k \in {"plain", "secure"}, t \in {0, DefaultTTL} }
  \cup { [GoodFile("plain") EXCEPT !.skipProxy = TRUE, !.dry_run = d, !.force_update = f] :
           d \in BOOLEAN, f \in BOOLEAN }
  \cup { [GoodFile("secure") EXCEPT !.vault = v] :
           v \in { EncryptCredentials(<<"AKIA">>, <<"wJal">>, OtherDevice, "n1").vault,
                   NoVault } }

\* bodies https://checkip.amazonaws.com can answer with
PublicIPBodies ==
  { <<ip, "\n">> : ip \in IPv4s } \cup { <<"<html>", "\n">> }

\* what the proxy-detection call can come back with
ProxyResponses == {"err", "true", "false"}

\* the subcommands that are followed through
Commands == {"update", "verify"}

\* the resolvers `verify` asks besides the system one, and what a resolver answers
DNSServers == {"Google", "Cloudflare", "Quad9"}
ResolverAnswers == {"FAILED", "NO RECORD"} \cup IPv4s

(* -------------------------------------------------------------- the state *)
VARIABLES
  cacheFile,   \* the IP cache file on disk
  r53Record,   \* value of the A record in the hosted zone, or NoRecord
  now,         \* the clock; it advances when an invocation starts
  prev,        \* what the invocation before the current one did
  run          \* per process: the invocation it is executing

vars == <<cacheFile, r53Record, now, prev, run>>

NoCalls ==
  [publicIP |-> 0, proxy |-> 0, list |-> 0, change |-> 0,
   cacheRead |-> 0, cacheWrite |-> 0, resolve |-> 0]

\* a process that has not been started
IdleRun ==
  [pc |-> "idle", cmd |-> "update", flags |-> NoFlags, file |-> NoFile, cfg |-> NoConfig,
   currentIP |-> "", cachedIP |-> "", dnsIP |-> "", dnsErr |-> "",
   proxyEnv |-> "none", proxyRes |-> "none", cwRes |-> "none",
   exitCode |-> -1, err |-> "", out |-> {}, calls |-> NoCalls, wrote |-> "",
   cache0 |-> AbsentFile, rec0 |-> NoRecord, started |-> 0, body |-> FALSE]

\* prev: the IP the invocation before wrote to Route53 without getting it
\* into the cache file ("" if there is no such invocation)
NoPrev == ""
LostCacheWrite(r) == IF r.wrote # "" /\ r.cwRes # "ok" THEN r.wrote ELSE ""

Init ==
  /\ cacheFile \in {AbsentFile} \cup { LegacyFile(ip) : ip \in IPv4s }
                  \cup { [exists |-> TRUE, lines |-> CacheContent(ip, 0)] : ip \in IPv4s }
  /\ r53Record \in {NoRecord} \cup IPv4s
  /\ now = 0
  /\ prev = NoPrev
  /\ run = [p \in Procs |-> IdleRun]

\* the process has left: return from main, os.Exit or a panic
Exited(r) == r.pc = "exited"

\* faulty variant of Fail: the error is noted and the step is taken again
Fail_Retry(r, msg) == [r EXCEPT !.err = msg]

\* return from runUpdate or runVerify with an error: main prints it and exits 1
Fail(r, msg) ==
  [r EXCEPT !.pc = "exited", !.exitCode = 1, !.err = msg, !.out = @ \cup {"Fatal"}]
\* return nil from runUpdate
Succeed(r) == [r EXCEPT !.pc = "exited", !.exitCode = 0]
\* a run-time panic: the Go runtime prints the trace and exits 2
Panic(r) == [r EXCEPT !.pc = "exited", !.exitCode = 2, !.out = @ \cup {"Panic"}]

Say(r, msgs) == [r EXCEPT !.out = @ \cup msgs]
Called(r, what) == [r EXCEPT !.calls[what] = @ + 1]

(* ---------------------------------------------------- decisions of update *)
\* faulty variant of IPUnchanged: the comparison the wrong way round
IPUnchanged_Inverted(c, cur, cached) == ~c.ForceUpdate /\ cur # cached

\* step 3: `!cfg.ForceUpdate && currentIP == cachedIP`
IPUnchanged(c, cur, cached) == ~c.ForceUpdate /\ cur = cached

\* faulty variant of ProxyCheckEnabled: the test of --ip the wrong way round
ProxyCheckEnabled_CustomOnly(c, customIP) == ~c.SkipProxy /\ customIP # ""

\* step 4: `!cfg.SkipProxy && customIP == ""`
ProxyCheckEnabled(c, customIP) == ~c.SkipProxy /\ customIP = ""

\* faulty variant of ProxyVerdict: a detected proxy is only warned about
ProxyVerdict_Advisory(res) == IF res = "false" THEN "pass" ELSE "warn"

\* step 4: what runUpdate does with the answer of IsProxyIP:
\* "abort" returns the error, "warn" logs the failure and goes on
ProxyVerdict(res) ==
  IF res = "err" THEN "warn" ELSE IF res = "true" THEN "abort" ELSE "pass"

\* `fqdn := r.hostname; if fqdn[len(fqdn)-1] != '.' { fqdn = fqdn + "." }`;
\* the hostname is a sequence of pieces, a dot at its end being a piece
FQDN(hostname) ==
  IF hostname[Len(hostname)] # "." THEN hostname \o <<".">> ELSE hostname

\* faulty variant of RecordSetMatches: the type is not looked at
RecordSetMatches_AnyType(rs, fqdn) == rs.name = fqdn

\* `*recordSet.Name == fqdn && recordSet.Type == types.RRTypeA`
RecordSetMatches(rs, fqdn) == rs.name = fqdn /\ rs.type = "A"

\* the loop of GetCurrentIP over resp.ResourceRecordSets: the first value of
\* the first matching record set that has a value, "" if the loop ends
RECURSIVE ScanRecordSets(_, _)
ScanRecordSets(sets, fqdn) ==
  IF sets = <<>> THEN ""
  ELSE IF RecordSetMatches(Head(sets), fqdn) /\ Len(Head(sets).values) > 0
  THEN Head(sets).values[1]
  ELSE ScanRecordSets(Tail(sets), fqdn)

\* Route53Client.GetCurrentIP() of a client for hostname, given what
\* ListResourceRecordSets answers: [panic, err, ip].  Indexing the empty
\* hostname is a run-time panic.
ClientGetCurrentIP(hostname, listOK, sets) ==
  IF hostname = <<>> THEN [panic |-> TRUE, err |-> "", ip |-> ""]
  ELSE IF ~listOK THEN [panic |-> FALSE, err |-> "failed to list record sets", ip |-> ""]
  ELSE IF ScanRecordSets(sets, FQDN(hostname)) = ""
  THEN [panic |-> FALSE, err |-> "A record not found", ip |-> ""]
  ELSE [panic |-> FALSE, err |-> "", ip |-> ScanRecordSets(sets, FQDN(hostname))]

\* faulty variant of ClientUpdateIP: the dry-run argument is not looked at
ClientUpdateIP_IgnoresDryRun(hostname, zone, ttl, newIP, dryRun, changeOK) ==
  [panic |-> FALSE, err |-> IF changeOK THEN "" ELSE "failed to update A record",
   out |-> {},
   requests |-> << [HostedZoneId |-> zone,
                    Changes |-> << [Action |-> "UPSERT", Name |-> FQDN(hostname),
                                    Type |-> "A", TTL |-> ttl,
                                    Values |-> <<newIP>>] >>] >>]

\* Route53Client.UpdateIP(newIP, dryRun): [panic, err, out, requests], requests
\* being the ChangeResourceRecordSets inputs that were submitted
ClientUpdateIP(hostname, zone, ttl, newIP, dryRun, changeOK) ==
  IF dryRun
  THEN [panic |-> FALSE, err |-> "", out |-> {"DryRunWouldUpdate"}, requests |-> <<>>]
  ELSE IF hostname = <<>>
  THEN [panic |-> TRUE, err |-> "", out |-> {}, requests |-> <<>>]
  ELSE [panic |-> FALSE, err |-> IF changeOK THEN "" ELSE "failed to update A record",
        out |-> {},
        requests |-> << [HostedZoneId |-> zone,
                         Changes |-> << [Action |-> "UPSERT", Name |-> FQDN(hostname),
                                         Type |-> "A", TTL |-> ttl,
                                         Values |-> <<newIP>>] >>] >>]

\* the hostname of the configurations that are followed, in pieces
ZoneHost == <<"home.example.com">>
\* a record set that sorts after the A record of ZoneHost in the zone
NextInZone == [name |-> <<"www.example.com", ".">>, type |-> "A", values |-> <<"9.9.9.9">>]

\* what ListResourceRecordSets (start at the name, MaxItems 1) answers for a
\* zone whose A record of ZoneHost holds record, or is absent
ZoneListing(record) ==
  IF record = NoRecord THEN <<NextInZone>>
  ELSE << [name |-> FQDN(ZoneHost), type |-> "A", values |-> <<record>>] >>

\* Route53Client.GetCurrentIP against the zone: [err, ip]
GetCurrentIP(record, apiOK) ==
  LET g == ClientGetCurrentIP(ZoneHost, apiOK, ZoneListing(record))
  IN [err |-> g.err, ip |-> g.ip]

\* faulty variant of DNSUpToDate: the force flag is not looked at
DNSUpToDate_IgnoresForce(c, cur, dnsIP) == cur = dnsIP

\* step 6: `currentIP == dnsIP && !cfg.ForceUpdate`
DNSUpToDate(c, cur, dnsIP) == cur = dnsIP /\ ~c.ForceUpdate

(* ------------------------------------------------------------ the actions *)
\* the program is started: `dddns [--config f] update [flags]` or
\* `dddns [--config f] verify`, which has no flags of its own
Start(p) ==
  /\ run[p].pc = "idle"
  /\ now < MaxRuns
  /\ now' = now + 1
  /\ \E c \in Commands, fl \in FlagSets, f \in ConfigFiles :
       /\ c = "verify" => fl = NoFlags
       /\ run' = [run EXCEPT ![p] =
                 [IdleRun EXCEPT !.pc = "initConfig", !.cmd = c, !.flags = fl, !.file = f,
                                 !.cache0 = cacheFile, !.rec0 = r53Record,
                                 !.started = now + 1]]
  /\ UNCHANGED <<cacheFile, r53Record, prev>>

\* the process is gone; the next invocation can be started
Finish(p) ==
  /\ run[p].pc = "exited"
  /\ prev' = LostCacheWrite(run[p])
  /\ run' = [run EXCEPT ![p] = IdleRun]
  /\ UNCHANGED <<cacheFile, r53Record, now>>

\* cobra.OnInitialize(initConfig): the permission gate of the root command
RootInit(p) ==
  /\ run[p].pc = "initConfig"
  /\ LET r == run[p]
         e == initConfig(r.file)
     IN run' = [run EXCEPT ![p] =
                  IF e # ""
                  THEN [r EXCEPT !.pc = "exited", !.exitCode = 1, !.err = e,
                                 !.out = @ \cup {"InitError"}]
                  ELSE [r EXCEPT !.pc = "load"]]
  /\ UNCHANGED <<cacheFile, r53Record, now, prev>>

\* runUpdate: config.Load(), cfg.Validate(), the start line
LoadConfig(p) ==
  /\ run[p].pc = "load"
  /\ run[p].cmd = "update"
  /\ LET r0 == run[p]
         l == LoadAndValidate(r0.file, r0.flags)
         r == [r0 EXCEPT !.body = TRUE, !.cfg = l.cfg]
     IN run' = [run EXCEPT ![p] =
                  IF l.err # "" THEN Fail(r, l.err)
                  ELSE Say([r EXCEPT !.pc = "getIP"],
                           logInfo(r.flags.quiet, "InfoChecking"))]
  /\ UNCHANGED <<cacheFile, r53Record, now, prev>>

\* step 1: the current IP, from --ip or from the public-IP service
GetIP(p) ==
  /\ run[p].pc = "getIP"
  /\ LET r == run[p] IN
       IF r.flags.ip # ""
       THEN run' = [run EXCEPT ![p] =
                      IF ~ParseIP(r.flags.ip) THEN Fail(r, "invalid IP address")
                      ELSE Say([r EXCEPT !.pc = "checkCache", !.currentIP = r.flags.ip],
                               logInfo(r.flags.quiet, "InfoCustomIP"))]
       ELSE \/ run' = [run EXCEPT ![p] =
                         Fail(Called(r, "publicIP"), "failed to get public IP")]
            \/ \E body \in PublicIPBodies :
                 run' = [run EXCEPT ![p] =
                           Say([Called(r, "publicIP") EXCEPT
                                  !.pc = "checkCache",
                                  !.currentIP = Concat(TrimSpace(Trim(body, {"\n"})))],
                               logInfo(r.flags.quiet, "InfoCurrentIP"))]
  /\ UNCHANGED <<cacheFile, r53Record, now, prev>>

\* faulty variant of CheckCache: the run goes on although nothing changed
CheckCache_NoExit(p) ==
  /\ run[p].pc = "checkCache"
  /\ LET r == run[p]
         cached == readCachedIP(cacheFile)
     IN run' = [run EXCEPT ![p] =
                  [Called(r, "cacheRead") EXCEPT !.cachedIP = cached, !.pc = "proxy"]]
  /\ UNCHANGED <<cacheFile, r53Record, now, prev>>

\* steps 2 and 3: read the cache, leave if nothing changed
CheckCache(p) ==
  /\ run[p].pc = "checkCache"
  /\ LET r == run[p]
         cached == readCachedIP(cacheFile)
         r1 == Say([Called(r, "cacheRead") EXCEPT !.cachedIP = cached],
                   IF cached # "" /\ ~r.flags.quiet
                   THEN logInfo(r.flags.quiet, "InfoLastKnown") ELSE {})
     IN run' = [run EXCEPT ![p] =
                  IF IPUnchanged(r.cfg, r.currentIP, cached)
                  THEN Succeed(Say(r1, IF ~r.flags.quiet
                                       THEN logInfo(r.flags.quiet, "InfoUnchanged")
                                       ELSE {}))
                  ELSE [r1 EXCEPT !.pc = "proxy"]]
  /\ UNCHANGED <<cacheFile, r53Record, now, prev>>

\* step 4: the proxy check; resp is what the service answers if it is asked
ProxyCheck(p) ==
  /\ run[p].pc = "proxy"
  /\ \E resp \in ProxyResponses :
       LET r == [run[p] EXCEPT !.proxyEnv = resp] IN
       run' = [run EXCEPT ![p] =
                 IF ~ProxyCheckEnabled(r.cfg, r.flags.ip)
                 THEN [r EXCEPT !.pc = "newClient"]
                 ELSE LET r1 == [Called(r, "proxy") EXCEPT !.proxyRes = resp]
                          v == ProxyVerdict(resp)
                      IN IF v = "abort" THEN Fail(r1, "proxy/VPN detected")
                         ELSE IF v = "warn"
                         THEN Say([r1 EXCEPT !.pc = "newClient"],
                                  logInfo(r.flags.quiet, "WarnProxyFailed"))
                         ELSE [r1 EXCEPT !.pc = "newClient"]]
  /\ UNCHANGED <<cacheFile, r53Record, now, prev>>

\* step 5: dns.NewRoute53Client; sdkOK is the outcome of LoadDefaultConfig
NewClient(p) ==
  /\ run[p].pc = "newClient"
  /\ \E sdkOK \in BOOLEAN :
       LET r == run[p] IN
       run' = [run EXCEPT ![p] =
                 IF r.cfg.AWSAccessKey = "" \/ r.cfg.AWSSecretKey = "" \/ ~sdkOK
                 THEN Fail(r, "failed to create Route53 client")
                 ELSE [r EXCEPT !.pc = "getDNS"]]
  /\ UNCHANGED <<cacheFile, r53Record, now, prev>>

\* faulty variant of GetDNS: a failed lookup ends the run
GetDNS_Fatal(p) ==
  /\ run[p].pc = "getDNS"
  /\ \E apiOK \in BOOLEAN :
       LET r == Called(run[p], "list")
           g == GetCurrentIP(r53Record, apiOK)
       IN run' = [run EXCEPT ![p] =
                    IF g.err # ""
                    THEN Fail([r EXCEPT !.dnsErr = g.err], "failed to get current DNS record")
                    ELSE IF DNSUpToDate(r.cfg, r.currentIP, g.ip)
                    THEN Say([r EXCEPT !.pc = "refreshCache", !.dnsIP = g.ip],
                             logInfo(r.flags.quiet, "InfoDNSRecord")
                               \cup logInfo(r.flags.quiet, "InfoDNSUpToDate"))
                    ELSE Say([r EXCEPT !.pc = "update", !.dnsIP = g.ip],
                             logInfo(r.flags.quiet, "InfoDNSRecord"))]
  /\ UNCHANGED <<cacheFile, r53Record, now, prev>>

\* step 6: read the record; a failure is tolerated
GetDNS(p) ==
  /\ run[p].pc = "getDNS"
  /\ \E apiOK \in BOOLEAN :
       LET r == Called(run[p], "list")
           g == GetCurrentIP(r53Record, apiOK)
       IN run' = [run EXCEPT ![p] =
                    IF g.err # ""
                    THEN Say([r EXCEPT !.pc = "update", !.dnsErr = g.err],
                             logInfo(r.flags.quiet, "WarnDNSLookup"))
                    ELSE IF DNSUpToDate(r.cfg, r.currentIP, g.ip)
                    THEN Say([r EXCEPT !.pc = "refreshCache", !.dnsIP = g.ip],
                             logInfo(r.flags.quiet, "InfoDNSRecord")
                               \cup logInfo(r.flags.quiet, "InfoDNSUpToDate"))
                    ELSE Say([r EXCEPT !.pc = "update", !.dnsIP = g.ip],
                             logInfo(r.flags.quiet, "InfoDNSRecord"))]
  /\ UNCHANGED <<cacheFile, r53Record, now, prev>>

\* faulty variant of CacheWriteStep: the error of writeCachedIP is returned
CacheWriteStep_Fatal(p) ==
  \E fs \in FsOutcomes :
    LET r == Called(run[p], "cacheWrite")
        w == writeCachedIP(cacheFile, r.cfg.IPCacheFile, r.currentIP, now, fs)
    IN /\ cacheFile' = w.file
       /\ run' = [run EXCEPT ![p] =
                    IF w.res = "panic" THEN Panic([r EXCEPT !.cwRes = "panic"])
                    ELSE IF w.res = "err"
                    THEN Fail([r EXCEPT !.cwRes = "err"], "failed to update cache file")
                    ELSE Succeed([r EXCEPT !.cwRes = "ok"])]

\* the call of writeCachedIP at either place, then `return nil`
CacheWriteStep(p) ==
  \E fs \in FsOutcomes :
    LET r == Called(run[p], "cacheWrite")
        w == writeCachedIP(cacheFile, r.cfg.IPCacheFile, r.currentIP, now, fs)
    IN /\ cacheFile' = w.file
       /\ run' = [run EXCEPT ![p] =
                    IF w.res = "panic" THEN Panic([r EXCEPT !.cwRes = "panic"])
                    ELSE IF w.res = "err"
                    THEN Succeed(Say([r EXCEPT !.cwRes = "err"],
                                     logInfo(r.flags.quiet, "WarnCacheWrite")))
                    ELSE Succeed([r EXCEPT !.cwRes = "ok"])]

\* step 6, record already right: "Still update cache file"
RefreshCache(p) ==
  /\ run[p].pc = "refreshCache"
  /\ CacheWriteStep(p)
  /\ UNCHANGED <<r53Record, now, prev>>

\* step 7: the dry-run report, or the UPSERT.  Route53 takes the change only
\* if the value of the A record is an IPv4 address.
UpdateDNS(p) ==
  /\ run[p].pc = "update"
  /\ LET r == run[p] IN
       IF r.cfg.DryRun
       THEN /\ run' = [run EXCEPT ![p] =
                         Succeed(Say(r, logPrintf("DryRunUpdate") \cup
                                        (IF r.cachedIP # "" THEN logPrintf("DryRunCache")
                                         ELSE {})))]
            /\ UNCHANGED r53Record
       ELSE LET r1 == Called(Say(r, logInfo(r.flags.quiet, "InfoUpdating")), "change") IN
            \/ /\ run' = [run EXCEPT ![p] = Fail(r1, "failed to update Route53")]
               /\ UNCHANGED r53Record
            \/ /\ r.currentIP \in IPv4s
               /\ run' = [run EXCEPT ![p] =
                            Say([r1 EXCEPT !.pc = "writeCache", !.wrote = r.currentIP],
                                logPrintf("Success"))]
               /\ r53Record' = r.currentIP
  /\ UNCHANGED <<cacheFile, now, prev>>

\* step 8: persist the new IP
WriteCache(p) ==
  /\ run[p].pc = "writeCache"
  /\ CacheWriteStep(p)
  /\ UNCHANGED <<r53Record, now, prev>>

(* ------------------------------------------------- the actions of verify *)
\* the glyph printed for one resolver answer
LookupReport(ans, expectedIP) ==
  IF ans = "FAILED" THEN "LookupFailed"
  ELSE IF ans = "NO RECORD" THEN "LookupNoRecord"
  ELSE IF ans = expectedIP THEN "LookupMatch" ELSE "LookupMismatch"

\* the summary line of runVerify
VerifySummary(route53IP, currentIP) ==
  IF route53IP = currentIP THEN "SummaryUpToDate"
  ELSE IF route53IP = "" THEN "SummaryNoRecord"
  ELSE "SummaryMismatch"

\* runVerify: config.Load(), cfg.Validate(), the banner
VerifyLoad(p) ==
  /\ run[p].pc = "load"
  /\ run[p].cmd = "verify"
  /\ LET r0 == run[p]
         l == LoadAndValidate(r0.file, r0.flags)
         r == [r0 EXCEPT !.body = TRUE, !.cfg = l.cfg]
     IN run' = [run EXCEPT ![p] =
                  IF l.err # "" THEN Fail(r, l.err)
                  ELSE Say([r EXCEPT !.pc = "vGetIP"], {"Banner"})]
  /\ UNCHANGED <<cacheFile, r53Record, now, prev>>

\* runVerify 1: the public IP; a failed lookup is returned as an error
VerifyGetIP(p) ==
  /\ run[p].pc = "vGetIP"
  /\ LET r == Called(run[p], "publicIP") IN
       \/ run' = [run EXCEPT ![p] = Fail(r, "failed to get public IP")]
       \/ \E body \in PublicIPBodies :
            run' = [run EXCEPT ![p] =
                      [r EXCEPT !.pc = "vNewClient",
                                !.currentIP = Concat(TrimSpace(Trim(body, {"\n"})))]]
  /\ UNCHANGED <<cacheFile, r53Record, now, prev>>

\* runVerify 2: dns.NewRoute53Client, then GetCurrentIP whose failure is only printed
VerifyRoute53(p) ==
  /\ run[p].pc = "vNewClient"
  /\ \E sdkOK \in BOOLEAN, apiOK \in BOOLEAN :
       LET r == run[p]
           r1 == Called(r, "list")
           g == GetCurrentIP(r53Record, apiOK)
       IN run' = [run EXCEPT ![p] =
                    IF r.cfg.AWSAccessKey = "" \/ r.cfg.AWSSecretKey = "" \/ ~sdkOK
                    THEN Fail(r, "failed to create Route53 client")
                    ELSE IF g.err # ""
                    THEN Say([r1 EXCEPT !.pc = "vResolve", !.dnsErr = g.err],
                             logPrintf("Route53NotFound"))
                    ELSE [r1 EXCEPT !.pc = "vResolve", !.dnsIP = g.ip]]
  /\ UNCHANGED <<cacheFile, r53Record, now, prev>>

\* runVerify 3 and 4 and the summary: the system resolver, the three public
\* resolvers, `return nil`
VerifyResolve(p) ==
  /\ run[p].pc = "vResolve"
  /\ \E sys \in ResolverAnswers, ans \in [DNSServers -> ResolverAnswers] :
       LET r == [run[p] EXCEPT !.calls.resolve = @ + 1 + Cardinality(DNSServers)] IN
       run' = [run EXCEPT ![p] =
                 Succeed(Say(r, {LookupReport(sys, r.currentIP)}
                                  \cup {LookupReport(ans[d], r.currentIP) : d \in DNSServers}
                                  \cup {VerifySummary(r.dnsIP, r.currentIP)}))]
  /\ UNCHANGED <<cacheFile, r53Record, now, prev>>

Step(p) ==
  \/ Start(p) \/ RootInit(p) \/ LoadConfig(p) \/ GetIP(p) \/ CheckCache(p)
  \/ ProxyCheck(p) \/ NewClient(p) \/ GetDNS(p) \/ RefreshCache(p)
  \/ UpdateDNS(p) \/ WriteCache(p) \/ Finish(p)
  \/ VerifyLoad(p) \/ VerifyGetIP(p) \/ VerifyRoute53(p) \/ VerifyResolve(p)

Next == \E p \in SeqProcs : Step(p)

Spec == Init /\ [][Next]_vars

\* the invocations that follow one another from the first start of the
\* program on a machine: no cache file yet
InitFresh == Init /\ cacheFile = AbsentFile

SpecFresh == InitFresh /\ [][Next]_vars

(* ------------------------------------------- overlapping invocations *)
\* two invocations that cron or a user start while the other is running, and
\* one that is started when both have left
OverlapProcs == {1, 2}
LateProc == Cardinality(OverlapProcs) + 1

\* the current IP each invocation is given: the overlapping two differ in it
OverlapIPs(p) ==
  IF p = 1 THEN {"1.1.1.1"} ELSE IF p = 2 THEN {"2.2.2.2"} ELSE IPv4s

\* `dddns update --ip x` with a complete plaintext configuration
StartOverlap(p) ==
  /\ run[p].pc = "idle"
  /\ p = LateProc => \A q \in OverlapProcs : run[q].pc = "exited"
  /\ now' = now + 1
  /\ \E x \in OverlapIPs(p) :
       run' = [run EXCEPT ![p] =
                 [IdleRun EXCEPT !.pc = "initConfig", !.cmd = "update",
                                 !.flags = [NoFlags EXCEPT !.ip = x],
                                 !.file = [GoodFile("plain") EXCEPT !.skipProxy = TRUE],
                                 !.cache0 = cacheFile, !.rec0 = r53Record,
                                 !.started = now + 1]]
  /\ UNCHANGED <<cacheFile, r53Record, prev>>

InitOverlap ==
  /\ cacheFile = AbsentFile
  /\ r53Record = NoRecord
  /\ now = 0
  /\ prev = NoPrev
  /\ run = [p \in OverlapProcs \cup {LateProc} |-> IdleRun]

StepOverlap(p) ==
  \/ StartOverlap(p) \/ RootInit(p) \/ LoadConfig(p) \/ GetIP(p) \/ CheckCache(p)
  \/ ProxyCheck(p) \/ NewClient(p) \/ GetDNS(p) \/ RefreshCache(p)
  \/ UpdateDNS(p) \/ WriteCache(p)

NextOverlap == \E p \in OverlapProcs \cup {LateProc} : StepOverlap(p)

SpecOverlap == InitOverlap /\ [][NextOverlap]_vars

(* ------------------------------------------------- Validate on its own *)
\* the configurations Validate is applied to
ValidateInputs ==
  [AWSAccessKey : {"", "AKIA"}, AWSSecretKey : {"", "wJal"}, HostedZoneID : {"", "Z123"},
   Hostname : {"", "home.example.com"}, TTL : {-1, 0, 1, DefaultTTL},
   IPCacheFile : {CachePathAbs}, SkipProxy : {FALSE}, ForceUpdate : {FALSE},
   DryRun : {FALSE}]

InitValidate ==
  /\ cacheFile = AbsentFile
  /\ r53Record = NoRecord
  /\ now = 0
  /\ prev = NoPrev
  /\ \E c \in ValidateInputs :
       run = [p \in Procs |-> IF p \in SeqProcs
                              THEN [IdleRun EXCEPT !.pc = "validate", !.cfg = c]
                              ELSE IdleRun]

\* cfg.Validate() is called and its result kept
ValidateCfg(p) ==
  /\ run[p].pc = "validate"
  /\ run' = [run EXCEPT ![p].pc = "validated", ![p].err = Validate(run[p].cfg)]
  /\ UNCHANGED <<cacheFile, r53Record, now, prev>>

NextValidate == \E p \in SeqProcs : ValidateCfg(p)

SpecValidate == InitValidate /\ [][NextValidate]_vars

(* ------------------------------------------ secure storage on its own *)
\* the longest credential that is tried, in characters
MaxCredLen == 2
\* characters of a credential: a letter and the colon
CredChars == {"A", ":"}
Credentials == UNION { [1..n -> CredChars] : n \in 0..MaxCredLen }

\* the machines a secure file is written and read on
Devices ==
  { UDM("SN1"), UDM("SN2"), UDMHashOnly("SN1"), Container("x"), Container("y"),
    BareMachine, [BareMachine EXCEPT !.username = "admin"],
    [BareMachine EXCEPT !.hostErr = TRUE] }

\* what can happen to the vault string of a file between writing and reading
Damages == {"truncated", "flipped", "garbled"}
Damage(v, how) ==
  IF how = "truncated" THEN [v EXCEPT !.bytes.short = TRUE]
  ELSE IF how = "flipped" THEN [v EXCEPT !.bytes.intact = FALSE]
  ELSE [v EXCEPT !.b64 = FALSE]

InitCrypto ==
  /\ cacheFile = AbsentFile
  /\ r53Record = NoRecord
  /\ now = 0
  /\ prev = NoPrev
  /\ \E a \in Credentials, k \in Credentials, w \in Devices, d \in Devices :
       run = [p \in Procs |->
                IF p \in SeqProcs
                THEN [pc |-> "plain", accessKey |-> a, secretKey |-> k, writer |-> w,
                      reader |-> d, file |-> NoFile, damaged |-> FALSE, err |-> "",
                      dec |-> DecryptCredentials(NoVault, d),
                      loaded |-> [err |-> "", cfg |-> NoConfig]]
                ELSE IdleRun]

\* SaveSecure on the writing machine: the credentials are sealed into the file
SaveSecureStep(p) ==
  /\ run[p].pc = "plain"
  /\ \E nonce \in Nonces :
       LET r == run[p]
           e == EncryptCredentials(r.accessKey, r.secretKey, r.writer, nonce)
       IN run' = [run EXCEPT ![p] =
                    IF e.err # ""
                    THEN [r EXCEPT !.pc = "failed", !.err = "failed to encrypt credentials"]
                    ELSE [r EXCEPT !.pc = "saved",
                                   !.file = [GoodFile("secure") EXCEPT !.vault = e.vault]]]
  /\ UNCHANGED <<cacheFile, r53Record, now, prev>>

\* the file is damaged on its way to the reading machine
DamageStep(p) ==
  /\ run[p].pc = "saved"
  /\ ~run[p].damaged
  /\ \E how \in Damages :
       run' = [run EXCEPT ![p].damaged = TRUE,
                          ![p].file.vault = Damage(run[p].file.vault, how)]
  /\ UNCHANGED <<cacheFile, r53Record, now, prev>>

\* LoadSecure on the reading machine, and the DecryptCredentials call in it
LoadSecureStep(p) ==
  /\ run[p].pc = "saved"
  /\ run' = [run EXCEPT ![p].pc = "loaded",
                        ![p].dec = DecryptCredentials(run[p].file.vault, run[p].reader),
                        ![p].loaded = LoadSecureOn(run[p].file, run[p].reader)]
  /\ UNCHANGED <<cacheFile, r53Record, now, prev>>

NextCrypto ==
  \E p \in SeqProcs : SaveSecureStep(p) \/ DamageStep(p) \/ LoadSecureStep(p)

SpecCrypto == InitCrypto /\ [][NextCrypto]_vars

(* ------------------------------------------ the Route53 client on its own *)
\* the most record sets one listing holds
MaxRecordSets == 2

\* hostnames a client is made for: relative, fully qualified, empty
ClientHostnames == { <<"home.example.com">>, <<"home.example.com", ".">>, <<>> }

\* record sets a listing can hold; one without values is an alias record
RecordSets ==
  [name : { <<"home.example.com", ".">>, <<"www.example.com", ".">> },
   type : {"A", "AAAA"},
   values : { <<>>, <<"1.1.1.1">>, <<"2.2.2.2", "1.1.1.1">> }]

Listings == UNION { [1..n -> RecordSets] : n \in 0..MaxRecordSets }

NoUpdate == [panic |-> FALSE, err |-> "", out |-> {}, requests |-> <<>>]

InitRoute53 ==
  /\ cacheFile = AbsentFile
  /\ r53Record = NoRecord
  /\ now = 0
  /\ prev = NoPrev
  /\ \E h \in ClientHostnames, l \in Listings :
       run = [p \in Procs |->
                IF p \in SeqProcs
                THEN [pc |-> "client", hostname |-> h, sets |-> l, listOK |-> TRUE,
                      got |-> [panic |-> FALSE, err |-> "", ip |-> ""],
                      newIP |-> "", dryRun |-> FALSE, upd |-> NoUpdate]
                ELSE IdleRun]

\* r53Client.GetCurrentIP() is called
GetCurrentIPStep(p) ==
  /\ run[p].pc = "client"
  /\ \E ok \in BOOLEAN :
       run' = [run EXCEPT ![p].pc = "read", ![p].listOK = ok,
                          ![p].got = ClientGetCurrentIP(run[p].hostname, ok, run[p].sets)]
  /\ UNCHANGED <<cacheFile, r53Record, now, prev>>

\* r53Client.UpdateIP(newIP, dryRun) is called
UpdateIPStep(p) ==
  /\ run[p].pc = "read"
  /\ ~run[p].got.panic
  /\ \E ip \in IPv4s, dry \in BOOLEAN, ok \in BOOLEAN :
       run' = [run EXCEPT ![p].pc = "updated", ![p].newIP = ip, ![p].dryRun = dry,
                          ![p].upd = ClientUpdateIP(run[p].hostname, "Z123", DefaultTTL,
                                                    ip, dry, ok)]
  /\ UNCHANGED <<cacheFile, r53Record, now, prev>>

NextRoute53 == \E p \in SeqProcs : GetCurrentIPStep(p) \/ UpdateIPStep(p)

SpecRoute53 == InitRoute53 /\ [][NextRoute53]_vars

(* ------------------------------------------------ the cache file on its own *)
\* a file of one or more lines and nothing else
FileOf(lines) == [exists |-> TRUE, lines |-> lines]

\* cache files readCachedIP can come upon: none, an empty one, the legacy
\* format with and without the newline at its end, the two-line format, text
\* that is neither, and the two-line format holding something that is no IP
\* address (a write cut short, an edit by hand)
CacheFiles ==
  {AbsentFile, EmptyFile}
  \cup { LegacyFile(ip) : ip \in IPv4s \cup IPv6s }
  \cup { FileOf(<< <<ip>> >>) : ip \in IPv4s }
  \cup { FileOf(<< <<" ", ip, " ">>, <<>> >>) : ip \in IPv4s }
  \cup { FileOf(CacheContent(ip, 0)) : ip \in IPv4s \cup IPv6s }
  \cup { FileOf(<< <<"# dddns">>, <<"last_known_ip:", " ", ip>>, <<>> >>) : ip \in IPv4s }
  \cup { FileOf(<< <<"garbage">>, <<>> >>),
         FileOf(<< <<"1.1.1.1">>, <<"2.2.2.2">>, <<>> >>) }
  \cup { FileOf(<< <<"last_known_ip:", " ", "203.0.1">> >>),
         FileOf(CacheContent("garbage", 0)) }

\* what writeCachedIP is given as the IP
WrittenIPs == IPv4s \cup IPv6s

NoCacheRun ==
  [pc |-> "start", file0 |-> AbsentFile, path |-> CachePathAbs, ip |-> "", t |-> 0,
   wres |-> "none", read |-> ""]

InitCache ==
  /\ cacheFile \in CacheFiles
  /\ r53Record = NoRecord
  /\ now = 0
  /\ prev = NoPrev
  /\ run = [p \in Procs |-> IF p \in SeqProcs
                             THEN [NoCacheRun EXCEPT !.file0 = cacheFile]
                             ELSE IdleRun]

\* readCachedIP(path) is called on the file as it is found
ReadCacheStep(p) ==
  /\ run[p].pc = "start"
  /\ run' = [run EXCEPT ![p].pc = "read", ![p].read = readCachedIP(cacheFile)]
  /\ UNCHANGED <<cacheFile, r53Record, now, prev>>

\* writeCachedIP(path, ip) is called at clock value t
WriteCacheStep(p) ==
  /\ run[p].pc = "read"
  /\ \E path \in {CachePathAbs, CachePathBare}, ip \in WrittenIPs, t \in 0..MaxRuns,
        fs \in FsOutcomes :
       LET w == writeCachedIP(cacheFile, path, ip, t, fs) IN
       /\ cacheFile' = w.file
       /\ run' = [run EXCEPT ![p].pc = "written", ![p].path = path, ![p].ip = ip,
                             ![p].t = t, ![p].wres = w.res]
  /\ UNCHANGED <<r53Record, now, prev>>

\* readCachedIP(path) is called after the write
RereadCacheStep(p) ==
  /\ run[p].pc = "written"
  /\ run[p].wres # "panic"
  /\ run' = [run EXCEPT ![p].pc = "reread", ![p].read = readCachedIP(cacheFile)]
  /\ UNCHANGED <<cacheFile, r53Record, now, prev>>

NextCache ==
  \E p \in SeqProcs : ReadCacheStep(p) \/ WriteCacheStep(p) \/ RereadCacheStep(p)

SpecCache == InitCache /\ [][NextCache]_vars

(* ------------------------------------------------- the UDM install script *)
\* mode 0700 of the configuration directory
Mode0700 == 448

\* INSTALL_DIR (/data/dddns): the binary, the download in progress, update.sh
NoInstallDir == [exists |-> FALSE, binary |-> "", tmp |-> FALSE, updateSh |-> FALSE]
\* CONFIG_DIR (/data/.dddns): its mode, config.yaml, config.secure and the IP
\* cache, each "absent" or a name for its content
NoConfigDir ==
  [exists |-> FALSE, mode |-> 0, config |-> "absent", secure |-> "absent",
   cache |-> "absent"]

\* the files the script touches: CRON_FILE, the boot script, the symlinks
\* /usr/local/bin/dddns and /usr/local/bin/dddns-update, /data/on_boot.sh, and
\* the two directories
FreshSystem ==
  [cron |-> FALSE, bootScript |-> FALSE, binLink |-> FALSE, updLink |-> FALSE,
   onBoot |-> FALSE, installDir |-> NoInstallDir, configDir |-> NoConfigDir]

InstalledSystem(cfgDir) ==
  [cron |-> TRUE, bootScript |-> TRUE, binLink |-> TRUE, updLink |-> TRUE,
   onBoot |-> TRUE,
   installDir |-> [exists |-> TRUE, binary |-> "v1", tmp |-> FALSE, updateSh |-> TRUE],
   configDir |-> cfgDir]

\* configuration directories an installed system can have
ConfigDirs ==
  { [exists |-> TRUE, mode |-> m, config |-> c, secure |-> x, cache |-> k] :
      m \in {Mode0700, Mode0755}, c \in {"absent", "template", "user"},
      x \in {"absent", "user"}, k \in {"ip"} }

Systems == {FreshSystem} \cup { InstalledSystem(d) : d \in ConfigDirs }

\* the release the GitHub API names as the latest
LatestVersion == "v2"

\* faulty variant of uninstall: the configuration directory goes too
uninstall_Purge(fs, failAt) ==
  [fs EXCEPT !.cron = FALSE, !.bootScript = FALSE, !.binLink = FALSE,
             !.updLink = FALSE, !.installDir = NoInstallDir,
             !.configDir = NoConfigDir]

\* uninstall(): five rm commands under `set -e`; the failAt-th one fails
\* (0: none does) and the ones after it are not run
uninstall(fs, failAt) ==
  LET done(k) == failAt = 0 \/ k < failAt IN
  [fs EXCEPT !.cron = IF done(1) THEN FALSE ELSE @,
             !.bootScript = IF done(2) THEN FALSE ELSE @,
             !.binLink = IF done(3) THEN FALSE ELSE @,
             !.updLink = IF done(4) THEN FALSE ELSE @,
             !.installDir = IF done(5) THEN NoInstallDir ELSE @]

\* install_binary version force: alreadyThere is the outcome of comparing the
\* output of `dddns --version` with the version, downloaded that of curl
install_binary(fs, version, force, alreadyThere, downloaded) ==
  IF fs.installDir.exists /\ fs.installDir.binary # "" /\ ~force /\ alreadyThere
  THEN [ok |-> TRUE, fs |-> fs]
  ELSE IF ~downloaded
  THEN [ok |-> FALSE, fs |-> [fs EXCEPT !.installDir.exists = TRUE]]
  ELSE [ok |-> TRUE,
        fs |-> [fs EXCEPT !.installDir.exists = TRUE, !.installDir.binary = version,
                          !.binLink = TRUE]]

\* create_boot_script()
create_boot_script(fs) == [fs EXCEPT !.bootScript = TRUE]

\* faulty variant of setup_config: the template is written in any case
setup_config_Overwrite(fs) ==
  [fs EXCEPT !.configDir.exists = TRUE, !.configDir.mode = Mode0700,
             !.configDir.config = "template"]

\* setup_config(): mkdir -p, chmod 700, the template if there is no config.yaml
setup_config(fs) ==
  [fs EXCEPT !.configDir.exists = TRUE, !.configDir.mode = Mode0700,
             !.configDir.config = IF @ = "absent" THEN "template" ELSE @]

\* setup_cron(), up to the restart of cron
setup_cron(fs) == [fs EXCEPT !.cron = TRUE]

\* create_update_script()
create_update_script(fs) ==
  [fs EXCEPT !.installDir.updateSh = TRUE, !.updLink = TRUE]

\* the boot script 10-dddns.sh when it is run
boot_script(fs) ==
  [fs EXCEPT !.binLink = TRUE,
             !.configDir = IF @.exists THEN @
                           ELSE [@ EXCEPT !.exists = TRUE, !.mode = Mode0700],
             !.cron = TRUE]

\* the shell between two runs of the script
NoScript ==
  [pc |-> "shell", action |-> "install", force |-> FALSE, version |-> "",
   euid |-> 0, arch |-> "aarch64", fs |-> FreshSystem, fs0 |-> FreshSystem,
   exit |-> -1]

InitInstall ==
  /\ cacheFile = AbsentFile
  /\ r53Record = NoRecord
  /\ now = 0
  /\ prev = NoPrev
  /\ \E sys \in Systems, a \in {"aarch64", "x86_64"} :
       run = [p \in Procs |-> IF p \in SeqProcs
                              THEN [NoScript EXCEPT !.fs = sys, !.fs0 = sys, !.arch = a]
                              ELSE IdleRun]

\* the script leaves with the given status
ScriptExit(r, code) == [r EXCEPT !.pc = "done", !.exit = code]

\* main: the arguments are parsed
StartScript(p) ==
  /\ run[p].pc = "shell"
  /\ now < MaxRuns
  /\ now' = now + 1
  /\ \E act \in {"install", "uninstall"}, f \in BOOLEAN, v \in {"", "v1"}, id \in {0, 1000} :
       /\ act = "uninstall" => (~f /\ v = "")
       /\ run' = [run EXCEPT ![p] =
                    [run[p] EXCEPT !.pc = "check_root", !.action = act, !.force = f,
                                   !.version = v, !.euid = id, !.fs0 = run[p].fs,
                                   !.exit = -1]]
  /\ UNCHANGED <<cacheFile, r53Record, prev>>

\* the script has ended; the user is back at the shell
EndScript(p) ==
  /\ run[p].pc = "done"
  /\ run' = [run EXCEPT ![p].pc = "shell"]
  /\ UNCHANGED <<cacheFile, r53Record, now, prev>>

\* between two runs the user fills in config.yaml, or moves the credentials
\* to config.secure (`dddns secure enable` wipes config.yaml)
UserConfigures(p) ==
  /\ run[p].pc = "shell"
  /\ run[p].fs.configDir.exists
  /\ run[p].fs.configDir.config = "template"
  /\ \/ run' = [run EXCEPT ![p].fs.configDir.config = "user"]
     \/ run' = [run EXCEPT ![p].fs.configDir.config = "absent",
                           ![p].fs.configDir.secure = "user"]
  /\ UNCHANGED <<cacheFile, r53Record, now, prev>>

\* check_root
CheckRoot(p) ==
  /\ run[p].pc = "check_root"
  /\ run' = [run EXCEPT ![p] = IF run[p].euid # 0 THEN ScriptExit(run[p], 1)
                               ELSE [run[p] EXCEPT !.pc = "detect_device"]]
  /\ UNCHANGED <<cacheFile, r53Record, now, prev>>

\* detect_device, then the branch on the action
DetectDevice(p) ==
  /\ run[p].pc = "detect_device"
  /\ LET r == run[p] IN
     run' = [run EXCEPT ![p] =
               IF r.arch \notin {"aarch64", "arm64"} THEN ScriptExit(r, 1)
               ELSE IF r.action = "uninstall" THEN [r EXCEPT !.pc = "uninstall"]
               ELSE [r EXCEPT !.pc = "get_latest_version"]]
  /\ UNCHANGED <<cacheFile, r53Record, now, prev>>

\* `uninstall; exit 0`
Uninstall(p) ==
  /\ run[p].pc = "uninstall"
  /\ \E failAt \in 0..5 :
       LET r == [run[p] EXCEPT !.fs = uninstall(run[p].fs, failAt)] IN
       run' = [run EXCEPT ![p] = ScriptExit(r, IF failAt = 0 THEN 0 ELSE 1)]
  /\ UNCHANGED <<cacheFile, r53Record, now, prev>>

\* `version=$(get_latest_version)` when no version was given
GetLatestVersion(p) ==
  /\ run[p].pc = "get_latest_version"
  /\ LET r == run[p] IN
     IF r.version # ""
     THEN run' = [run EXCEPT ![p].pc = "install_on_boot_script"]
     ELSE \/ run' = [run EXCEPT ![p] = ScriptExit(r, 1)]
          \/ run' = [run EXCEPT ![p].pc = "install_on_boot_script",
                                ![p].version = LatestVersion]
  /\ UNCHANGED <<cacheFile, r53Record, now, prev>>

\* install_on_boot_script: `curl | bash` of the remote installer, whose own
\* failure ends the script and whose download failure goes unnoticed
InstallOnBootScript(p) ==
  /\ run[p].pc = "install_on_boot_script"
  /\ LET r == run[p] IN
     IF r.fs.onBoot
     THEN run' = [run EXCEPT ![p].pc = "install_binary"]
     ELSE \/ run' = [run EXCEPT ![p] = ScriptExit(r, 1)]
          \/ \E installed \in BOOLEAN :
               run' = [run EXCEPT ![p].pc = "install_binary",
                                  ![p].fs.onBoot = installed]
  /\ UNCHANGED <<cacheFile, r53Record, now, prev>>

\* install_binary "$version" "$force"
InstallBinary(p) ==
  /\ run[p].pc = "install_binary"
  /\ \E alreadyThere \in BOOLEAN, downloaded \in BOOLEAN :
       LET r == run[p]
           i == install_binary(r.fs, r.version, r.force, alreadyThere, downloaded)
       IN run' = [run EXCEPT ![p] =
                    IF i.ok THEN [r EXCEPT !.pc = "create_boot_script", !.fs = i.fs]
                    ELSE ScriptExit([r EXCEPT !.fs = i.fs], 1)]
  /\ UNCHANGED <<cacheFile, r53Record, now, prev>>

\* create_boot_script
CreateBootScript(p) ==
  /\ run[p].pc = "create_boot_script"
  /\ run' = [run EXCEPT ![p].pc = "setup_config",
                        ![p].fs = create_boot_script(run[p].fs)]
  /\ UNCHANGED <<cacheFile, r53Record, now, prev>>

\* setup_config
SetupConfig(p) ==
  /\ run[p].pc = "setup_config"
  /\ run' = [run EXCEPT ![p].pc = "setup_cron", ![p].fs = setup_config(run[p].fs)]
  /\ UNCHANGED <<cacheFile, r53Record, now, prev>>

\* setup_cron: the cron file, then the restart of cron, which can fail
SetupCron(p) ==
  /\ run[p].pc = "setup_cron"
  /\ \E restarted \in BOOLEAN :
       LET r == [run[p] EXCEPT !.fs = setup_cron(run[p].fs)] IN
       run' = [run EXCEPT ![p] = IF restarted THEN [r EXCEPT !.pc = "create_update_script"]
                                 ELSE ScriptExit(r, 1)]
  /\ UNCHANGED <<cacheFile, r53Record, now, prev>>

\* create_update_script
CreateUpdateScript(p) ==
  /\ run[p].pc = "create_update_script"
  /\ run' = [run EXCEPT ![p].pc = "boot_script",
                        ![p].fs = create_update_script(run[p].fs)]
  /\ UNCHANGED <<cacheFile, r53Record, now, prev>>

\* the boot script is run
RunBootScript(p) ==
  /\ run[p].pc = "boot_script"
  /\ run' = [run EXCEPT ![p].pc = "test_installation",
                        ![p].fs = boot_script(run[p].fs)]
  /\ UNCHANGED <<cacheFile, r53Record, now, prev>>

\* test_installation: `dddns --version` must run; `config validate` may fail
TestInstallation(p) ==
  /\ run[p].pc = "test_installation"
  /\ \E runs \in BOOLEAN :
       run' = [run EXCEPT ![p] = ScriptExit(run[p], IF runs THEN 0 ELSE 1)]
  /\ UNCHANGED <<cacheFile, r53Record, now, prev>>

NextInstall ==
  \E p \in SeqProcs :
    \/ StartScript(p) \/ EndScript(p) \/ UserConfigures(p) \/ CheckRoot(p)
    \/ DetectDevice(p) \/ Uninstall(p) \/ GetLatestVersion(p)
    \/ InstallOnBootScript(p) \/ InstallBinary(p) \/ CreateBootScript(p)
    \/ SetupConfig(p) \/ SetupCron(p) \/ CreateUpdateScript(p)
    \/ RunBootScript(p) \/ TestInstallation(p)

SpecInstall == InitInstall /\ [][NextInstall]_vars

(* ---------------------------------------------------- deployment profiles *)
\* the five profile records of package profile; DataDir is cut into pieces,
\* "$HOME" and "$APPDATA" being the placeholders GetDataDir looks for
Profile ==
  [udm |-> [Name |-> "udm", DataDir |-> <<"/", "data", "/", ".dddns">>,
            ConfigPerm |-> ConfigFilePerm, SecurePerm |-> SecureConfigPerm,
            DirPerm |-> Mode0700, UseHardwareID |-> TRUE,
            DeviceIDPath |-> "/proc/ubnthal/system.info"],
   linux |-> [Name |-> "linux", DataDir |-> <<"$HOME", "/", ".dddns">>,
              ConfigPerm |-> ConfigFilePerm, SecurePerm |-> SecureConfigPerm,
              DirPerm |-> Mode0700, UseHardwareID |-> FALSE,
              DeviceIDPath |-> "/sys/class/net/eth0/address"],
   macos |-> [Name |-> "macos", DataDir |-> <<"$HOME", "/", ".dddns">>,
              ConfigPerm |-> ConfigFilePerm, SecurePerm |-> SecureConfigPerm,
              DirPerm |-> Mode0700, UseHardwareID |-> FALSE, DeviceIDPath |-> ""],
   docker |-> [Name |-> "docker", DataDir |-> <<"/", "config">>,
               ConfigPerm |-> ConfigFilePerm, SecurePerm |-> SecureConfigPerm,
               DirPerm |-> Mode0755, UseHardwareID |-> FALSE,
               DeviceIDPath |-> "/proc/self/cgroup"],
   windows |-> [Name |-> "windows", DataDir |-> <<"$APPDATA", "/", "dddns">>,
                ConfigPerm |-> ConfigFilePerm, SecurePerm |-> SecureConfigPerm,
                DirPerm |-> Mode0700, UseHardwareID |-> FALSE, DeviceIDPath |-> ""]]

ProfileNames == {"udm", "linux", "macos", "docker", "windows"}

\* what Detect looks at: the two marker files, runtime.GOOS, the home
\* directory os.UserHomeDir() returns (<<>> when it fails) and %APPDATA%
Environments ==
  { e \in [systemInfo : BOOLEAN, dockerenv : BOOLEAN,
           goos : {"linux", "darwin", "windows", "freebsd"},
           homeOK : BOOLEAN, appdata : BOOLEAN] :
      /\ (e.systemInfo \/ e.dockerenv) => e.goos = "linux"
      /\ e.appdata => e.goos = "windows" }

HomeDir(e) ==
  IF ~e.homeOK THEN <<>>
  ELSE IF e.goos = "windows" THEN <<"C:", "\\", "Users", "\\", "u">>
  ELSE <<"/", "root">>

AppData(e) ==
  IF e.appdata THEN <<"C:", "\\", "Users", "\\", "u", "\\", "AppData", "\\", "Roaming">>
  ELSE <<>>

\* Detect(): the name of the profile it returns
Detect(e) ==
  IF e.systemInfo THEN "udm"
  ELSE IF e.dockerenv THEN "docker"
  ELSE IF e.goos = "darwin" THEN "macos"
  ELSE IF e.goos = "linux" THEN "linux"
  ELSE IF e.goos = "windows" THEN "windows"
  ELSE "linux"

\* filepath.Separator
Separator(goos) == IF goos = "windows" THEN "\\" ELSE "/"

RECURSIVE JoinWith(_, _)
JoinWith(elems, sep) ==
  IF elems = <<>> THEN <<>>
  ELSE IF Len(elems) = 1 THEN Head(elems)
  ELSE Head(elems) \o <<sep>> \o JoinWith(Tail(elems), sep)

\* filepath.Join(elems...): the empty elements are dropped, the rest joined
\* with the separator and cleaned, which on windows turns "/" into "\"
Join(goos, elems) ==
  LET joined == JoinWith(SelectSeq(elems, LAMBDA x : x # <<>>), Separator(goos))
  IN [i \in 1..Len(joined) |->
        IF goos = "windows" /\ joined[i] = "/" THEN "\\" ELSE joined[i]]

\* Profile.GetDataDir()
GetDataDir(name, e) ==
  LET d == Profile[name].DataDir IN
  IF d = <<"$HOME", "/", ".dddns">> THEN HomeDir(e) \o <<"/", ".dddns">>
  ELSE IF d = <<"$APPDATA", "/", "dddns">>
  THEN IF AppData(e) # <<>> THEN Join(e.goos, <<AppData(e), <<"dddns">>>>)
       ELSE Join(e.goos, <<HomeDir(e), <<"AppData">>, <<"Roaming">>, <<"dddns">>>>)
  ELSE d

\* Profile.GetConfigPath() and Profile.GetCachePath()
GetConfigPath(name, e) == Join(e.goos, <<GetDataDir(name, e), <<"config.yaml">>>>)
GetCachePath(name, e) == Join(e.goos, <<GetDataDir(name, e), <<"last-ip.txt">>>>)

\* os.IsPathSeparator
PathSeparators(goos) == IF goos = "windows" THEN {"\\", "/"} ELSE {"/"}

\* the positions of the separators in the string s
SepPositions(s, goos) == { i \in 1..Len(s) : SubSeq(s, i, i) \in PathSeparators(goos) }

\* s without the separators at its end; the root stays
RECURSIVE StripSeps(_, _)
StripSeps(s, goos) ==
  IF Len(s) > 1 /\ Len(s) \in SepPositions(s, goos)
  THEN StripSeps(SubSeq(s, 1, Len(s) - 1), goos)
  ELSE s

\* filepath.Dir(path)
Dir(s, goos) ==
  LET P == SepPositions(s, goos) IN
  IF P = {} THEN "."
  ELSE StripSeps(SubSeq(s, 1, CHOOSE i \in P : \A j \in P : j <= i), goos)

\* dir and the directories above it
AllDirs(dir, goos) ==
  { StripSeps(SubSeq(dir, 1, i), goos) :
      i \in (SepPositions(dir, goos) \cup {Len(dir)}) \ {0} }

\* os.MkdirAll(dir, perm) on a disk with the directories dirs: [err, made],
\* made being the directories it creates
MkdirAll(dirs, dir, goos, ok) ==
  IF dir = "" THEN [err |-> TRUE, made |-> {}]
  ELSE IF StripSeps(dir, goos) \in dirs THEN [err |-> FALSE, made |-> {}]
  ELSE IF ~ok THEN [err |-> TRUE, made |-> {}]
  ELSE [err |-> FALSE, made |-> AllDirs(dir, goos) \ dirs]

\* a disk is [dirs, files], a file [path, mode, content]
FileAt(disk, path) == { f \in disk.files : f.path = path }

\* len("/config.yaml")
ConfigYamlLen == 12

\* the template CreateDefault formats, with the cache path in it
Template(cachePath) == "template ip_cache_file: " \o cachePath

\* CreateDefault(path): [panic, err, disk, made]; cutting more off a string
\* than it has is a run-time panic.  os.WriteFile leaves the mode of a file
\* that is already there.
CreateDefault(path, disk, goos, cachePath, mkOK, wrOK) ==
  LET n == Len(path) - ConfigYamlLen
      mk == MkdirAll(disk.dirs, SubSeq(path, 1, n), goos, mkOK)
      dirs1 == disk.dirs \cup mk.made
      mode == IF FileAt(disk, path) = {} THEN ConfigFilePerm
              ELSE (CHOOSE f \in FileAt(disk, path) : TRUE).mode
  IN IF n < 0 THEN [panic |-> TRUE, err |-> "", disk |-> disk, made |-> {}]
     ELSE IF mk.err
     THEN [panic |-> FALSE, err |-> "failed to create config directory",
           disk |-> disk, made |-> {}]
     ELSE IF ~wrOK \/ Dir(path, goos) \notin dirs1
     THEN [panic |-> FALSE, err |-> "failed to write config file",
           disk |-> [disk EXCEPT !.dirs = dirs1], made |-> mk.made]
     ELSE [panic |-> FALSE, err |-> "",
           disk |-> [dirs |-> dirs1,
                     files |-> (disk.files \ FileAt(disk, path)) \cup
                               {[path |-> path, mode |-> mode,
                                 content |-> Template(cachePath)]}],
           made |-> mk.made]

\* the directories of a machine before dddns is set up
BaseDirs(goos) ==
  IF goos = "windows" THEN {".", "C:", "C:\\Users", "C:\\Users\\u"}
  ELSE {".", "/", "/etc", "/etc/dddns", "/root"}

\* the files `--config` names in the invocations of `config init`; "" is
\* no --config.  initConfig lets the command run only if the file is there.
CustomConfigs(goos) ==
  IF goos = "windows" THEN {""}
  ELSE {"", "/etc/dddns/config.yaml", "/etc/dddns/my.yaml", "c.yaml"}

UserFile(path) == [path |-> path, mode |-> ConfigFilePerm, content |-> "user"]

\* the disk of a machine: set up before (the data directory and its
\* config.yaml are there) or not, and with the file --config names
DiskOf(e, installed, cfgFile) ==
  LET name == Detect(e)
      dataDir == Concat(GetDataDir(name, e))
  IN [dirs |-> BaseDirs(e.goos) \cup
               (IF installed /\ dataDir # "" THEN AllDirs(dataDir, e.goos) ELSE {}),
      files |-> (IF installed THEN {UserFile(Concat(GetConfigPath(name, e)))} ELSE {})
                \cup (IF cfgFile # "" THEN {UserFile(cfgFile)} ELSE {})]

NoCreate == [panic |-> FALSE, err |-> "", disk |-> [dirs |-> {}, files |-> {}], made |-> {}]

\* the ip_cache_file settings of the configuration files: <<>> is none
CacheSettings == {<<>>, CachePathBare}

InitProfile ==
  /\ cacheFile = AbsentFile
  /\ r53Record = NoRecord
  /\ now = 0
  /\ prev = NoPrev
  /\ \E e \in Environments, c \in {"update", "config init"}, cs \in CacheSettings,
        inst \in BOOLEAN, force \in BOOLEAN :
       \E cf \in CustomConfigs(e.goos) :
         /\ c = "update" => (cf = "" /\ ~inst /\ ~force)
         /\ c = "config init" => cs = <<>>
         /\ run = [p \in Procs |->
                     IF p \in SeqProcs
                     THEN [pc |-> "start", cmd |-> c, env |-> e, profile |-> "",
                           cacheSetting |-> cs, IPCacheFile |-> <<>>, cwRes |-> "none",
                           cfgFile |-> cf, force |-> force,
                           disk |-> DiskOf(e, inst, cf), disk0 |-> DiskOf(e, inst, cf),
                           configPath |-> "", created |-> NoCreate,
                           err |-> "", exitCode |-> -1]
                     ELSE IdleRun]

\* profile.Init(): the current profile is detected
ProfileInit(p) ==
  /\ run[p].pc = "start"
  /\ run' = [run EXCEPT ![p].pc = "detected", ![p].profile = Detect(run[p].env)]
  /\ UNCHANGED <<cacheFile, r53Record, now, prev>>

\* config.Load(): the cache path of the profile unless the file sets one
LoadDefaults(p) ==
  /\ run[p].pc = "detected"
  /\ run[p].cmd = "update"
  /\ LET r == run[p] IN
       run' = [run EXCEPT ![p].pc = "loaded",
                          ![p].IPCacheFile =
                             IF r.cacheSetting # <<>> THEN r.cacheSetting
                             ELSE GetCachePath(r.profile, r.env)]
  /\ UNCHANGED <<cacheFile, r53Record, now, prev>>

\* the end of runUpdate: writeCachedIP(cfg.IPCacheFile, currentIP)
WriteCacheAt(p) ==
  /\ run[p].pc = "loaded"
  /\ \E ip \in IPv4s, fs \in FsOutcomes :
       LET r == run[p]
           w == writeCachedIP(cacheFile, r.IPCacheFile, ip, now, fs)
       IN /\ cacheFile' = w.file
          /\ run' = [run EXCEPT ![p] =
                       [r EXCEPT !.pc = "done", !.cwRes = w.res,
                                 !.exitCode = IF w.res = "panic" THEN 2 ELSE 0]]
  /\ UNCHANGED <<r53Record, now, prev>>

\* runConfigInit with --interactive=false
ConfigInit(p) ==
  /\ run[p].pc = "detected"
  /\ run[p].cmd = "config init"
  /\ \E mkOK \in BOOLEAN, wrOK \in BOOLEAN :
       LET r == run[p]
           path == IF r.cfgFile # "" THEN r.cfgFile
                   ELSE Concat(GetConfigPath(r.profile, r.env))
           c == CreateDefault(path, r.disk, r.env.goos,
                              Concat(GetCachePath(r.profile, r.env)), mkOK, wrOK)
           r1 == [r EXCEPT !.pc = "done", !.configPath = path]
       IN run' = [run EXCEPT ![p] =
                    IF FileAt(r.disk, path) # {} /\ ~r.force
                    THEN [r1 EXCEPT !.err = "config file already exists", !.exitCode = 1]
                    ELSE IF c.panic
                    THEN [r1 EXCEPT !.created = c, !.exitCode = 2]
                    ELSE IF c.err # ""
                    THEN [r1 EXCEPT !.created = c, !.disk = c.disk,
                                    !.err = "failed to create config", !.exitCode = 1]
                    ELSE [r1 EXCEPT !.created = c, !.disk = c.disk, !.exitCode = 0]]
  /\ UNCHANGED <<cacheFile, r53Record, now, prev>>

NextProfile ==
  \E p \in SeqProcs : ProfileInit(p) \/ LoadDefaults(p) \/ WriteCacheAt(p) \/ ConfigInit(p)

SpecProfile == InitProfile /\ [][NextProfile]_vars

(* ------------------------------------------------ enabling secure storage *)
\* what os.WriteFile(plaintextPath, zeros, 0600) leaves of a file
ZeroedFile(f) == [NoFile EXCEPT !.kind = "zeros", !.exists = TRUE, !.mode = f.mode]

\* faulty variant of SaveSecure: a failed write is not reported
SaveSecure_IgnoresWriteError(cfg, old, nonce, fs) ==
  LET e == EncryptCredentials(<<cfg.AWSAccessKey>>, <<cfg.AWSSecretKey>>, ThisDevice, nonce)
  IN IF e.err # "" THEN [err |-> "failed to encrypt credentials", file |-> old]
     ELSE IF fs = "ok"
     THEN [err |-> "",
           file |-> [GoodFile("secure") EXCEPT
                       !.vault = e.vault, !.zone = cfg.HostedZoneID,
                       !.hostname = cfg.Hostname, !.ttl = cfg.TTL,
                       !.cachePath = cfg.IPCacheFile, !.skipProxy = cfg.SkipProxy]]
     ELSE [err |-> "", file |-> old]

\* SaveSecure(cfg, path) where the file at path is old: [err, file]
SaveSecure(cfg, old, nonce, fs) ==
  LET e == EncryptCredentials(<<cfg.AWSAccessKey>>, <<cfg.AWSSecretKey>>, ThisDevice, nonce)
  IN IF e.err # "" THEN [err |-> "failed to encrypt credentials", file |-> old]
     ELSE IF fs = "mkdirFail" THEN [err |-> "failed to create directory", file |-> old]
     ELSE IF fs = "writeFailKeep" THEN [err |-> "failed to write config", file |-> old]
     ELSE IF fs = "writeFailTrunc"
     THEN [err |-> "failed to write config",
           file |-> [NoFile EXCEPT !.kind = "secure", !.exists = TRUE,
                                   !.mode = SecureConfigPerm]]
     ELSE [err |-> "",
           file |-> [GoodFile("secure") EXCEPT
                       !.vault = e.vault, !.zone = cfg.HostedZoneID,
                       !.hostname = cfg.Hostname, !.ttl = cfg.TTL,
                       !.cachePath = cfg.IPCacheFile, !.skipProxy = cfg.SkipProxy]]

\* the end of MigrateToSecure: the file is overwritten with zeros and
\* removed; neither result is looked at
WipePlaintext(f, zeroOK, removeOK) ==
  IF ~f.exists THEN f
  ELSE IF removeOK THEN [f EXCEPT !.exists = FALSE]
  ELSE IF zeroOK THEN ZeroedFile(f)
  ELSE f

\* the configuration files `secure enable` can be started with: those
\* initConfig lets through
MigrateFiles == { f \in ConfigFiles : initConfig(f) = "" }

InitMigrate ==
  /\ cacheFile = AbsentFile
  /\ r53Record = NoRecord
  /\ now = 0
  /\ prev = NoPrev
  /\ \E f \in MigrateFiles, sec \in BOOLEAN :
       run = [p \in Procs |->
                IF p \in SeqProcs
                THEN [pc |-> "start", file |-> f, plain |-> f, plain0 |-> f,
                      secure |-> IF sec THEN GoodFile("secure") ELSE NoFile,
                      cfg |-> NoConfig, loadErr |-> "", saveErr |-> "", saved |-> FALSE,
                      err |-> "", exitCode |-> -1, out |-> {}]
                ELSE IdleRun]

\* runEnableSecure: the secure path must be free
EnableSecure(p) ==
  /\ run[p].pc = "start"
  /\ run' = [run EXCEPT ![p] =
               IF run[p].secure.exists
               THEN Fail(run[p], "secure config already exists")
               ELSE [run[p] EXCEPT !.pc = "load"]]
  /\ UNCHANGED <<cacheFile, r53Record, now, prev>>

\* MigrateToSecure: Load()
MigrateLoad(p) ==
  /\ run[p].pc = "load"
  /\ LET r == run[p]
         l == Load(r.file, NoFlags)
     IN run' = [run EXCEPT ![p] =
                  IF l.err # ""
                  THEN Fail([r EXCEPT !.loadErr = l.err], "failed to load plaintext config")
                  ELSE [r EXCEPT !.pc = "save", !.cfg = l.cfg]]
  /\ UNCHANGED <<cacheFile, r53Record, now, prev>>

\* MigrateToSecure: SaveSecure(cfg, securePath)
MigrateSave(p) ==
  /\ run[p].pc = "save"
  /\ \E nonce \in Nonces, fs \in FsOutcomes :
       LET r == run[p]
           sv == SaveSecure(r.cfg, r.secure, nonce, fs)
           r1 == [r EXCEPT !.secure = sv.file]
       IN run' = [run EXCEPT ![p] =
                    IF sv.err # ""
                    THEN Fail([r1 EXCEPT !.saveErr = sv.err], "failed to save secure config")
                    ELSE [r1 EXCEPT !.pc = "wipe", !.saved = TRUE]]
  /\ UNCHANGED <<cacheFile, r53Record, now, prev>>

\* MigrateToSecure: the wipe of the plaintext file, `return nil`
MigrateWipe(p) ==
  /\ run[p].pc = "wipe"
  /\ \E zeroOK \in BOOLEAN, removeOK \in BOOLEAN :
       run' = [run EXCEPT ![p] =
                 Succeed(Say([run[p] EXCEPT
                                !.plain = WipePlaintext(run[p].plain, zeroOK, removeOK)],
                             {"Migrated"}))]
  /\ UNCHANGED <<cacheFile, r53Record, now, prev>>

NextMigrate ==
  \E p \in SeqProcs : EnableSecure(p) \/ MigrateLoad(p) \/ MigrateSave(p) \/ MigrateWipe(p)

SpecMigrate == InitMigrate /\ [][NextMigrate]_vars

(* ------------------------------------------------------------ the claims *)
\* the cache file holds ip, in the two-line format or as a bare line
FileHolds(f, ip) ==
  /\ f.exists
  /\ \/ f.lines = << <<ip>>, <<>> >>
     \/ /\ Len(f.lines) = 3
        /\ f.lines[1] = <<"last_known_ip:", " ", ip>>

\* the cache file holds ip in the two-line format, stamped at clock value t
FileHoldsAt(f, ip, t) == f = [exists |-> TRUE, lines |-> CacheContent(ip, t)]

\* the invocation got past Load and Validate
ConfigValid(r) == r.body /\ r.cfg # NoConfig /\ r.pc # "load" /\ Validate(r.cfg) = ""

\* C1: an `update` given --dry-run, on a valid configuration of either kind,
\* never writes the cache file and never issues a Route53 change call.
C1_DryRunNeverMutates ==
  \A p \in Procs :
    LET r == run[p] IN
    (r.flags.dryRun = "true" /\ ConfigValid(r))
      => /\ r.calls.change = 0
         /\ r.calls.cacheWrite = 0
         /\ cacheFile = r.cache0
         /\ r53Record = r.rec0

\* C2: cache holds X, current IP is X, force is false: no Route53 write, no
\* Route53 read, no proxy call, cache file unchanged, exit status 0.
C2_CacheHitDoesNothing ==
  \A p \in Procs :
    LET r == run[p] IN
    (r.calls.cacheRead > 0 /\ r.currentIP \in IPv4s
       /\ FileHolds(r.cache0, r.currentIP) /\ ~r.cfg.ForceUpdate)
      => /\ Exited(r) /\ r.exitCode = 0
         /\ r.calls.change = 0 /\ r.calls.list = 0 /\ r.calls.proxy = 0
         /\ r.calls.cacheWrite = 0
         /\ cacheFile = r.cache0
         /\ r53Record = r.rec0

C2_Witness ==
  \E p \in Procs :
    LET r == run[p] IN
    /\ Exited(r) /\ r.exitCode = 0 /\ r.calls.cacheRead = 1
    /\ r.currentIP \in IPv4s /\ FileHolds(r.cache0, r.currentIP)
    /\ ~r.cfg.ForceUpdate /\ r.calls.publicIP = 1

\* the case of C3: the cache held X, the current IP is Y # X, the run is not
\* a dry run, the proxy check was skipped or negative, the Route53 calls
\* succeeded, and the invocation has ended
C3_Case(r) ==
  /\ r.cmd = "update"
  /\ Exited(r) /\ r.err = ""
  /\ r.currentIP \in IPv4s
  /\ \E x \in IPv4s : x # r.currentIP /\ FileHolds(r.cache0, x)
  /\ ~r.cfg.DryRun
  /\ r.proxyRes \in {"none", "false"}
  /\ r.calls.list = 1 /\ r.dnsErr # "failed to list record sets"

\* C3 as stated: in that case exactly one Route53 write is made and the cache
\* file afterwards holds Y with a fresh timestamp (stated for the runs in which
\* writeCachedIP returns).
C3_Original ==
  \A p \in Procs :
    LET r == run[p] IN
    (C3_Case(r) /\ r.cwRes # "panic")
               => /\ r.calls.change = 1
                  /\ FileHoldsAt(cacheFile, r.currentIP, r.started)

\* C3 (amended): in that case exactly one Route53 write is made, unless the A
\* record already holds Y and force is false, when none is made; and if the
\* cache write returned nil the cache file holds Y with a fresh timestamp.
C3_UpdateWritesOnceThenCaches ==
  \A p \in Procs :
    LET r == run[p] IN
    C3_Case(r) =>
      /\ r.calls.change = (IF r.rec0 = r.currentIP /\ ~r.cfg.ForceUpdate THEN 0 ELSE 1)
      /\ r.cwRes = "ok" => FileHoldsAt(cacheFile, r.currentIP, r.started)

C3_Witness ==
  \E p \in Procs :
    LET r == run[p] IN
    /\ C3_Case(r) /\ r.calls.change = 1 /\ r.cwRes = "ok"
    /\ r.rec0 # r.currentIP
    /\ FileHoldsAt(cacheFile, r.currentIP, r.started)

\* C4: when the proxy check is enabled and the service reports proxy=true for
\* the current IP, update returns an error without a Route53 read or write and
\* without a cache write; with skip_proxy_check true and the same answer of the
\* service, update goes on to the Route53 steps.
C4_ProxyVeto ==
  \A p \in Procs :
    LET r == run[p] IN
    /\ (r.proxyEnv = "true" /\ ~r.cfg.SkipProxy /\ r.flags.ip = "")
         => /\ Exited(r) /\ r.exitCode = 1 /\ r.err = "proxy/VPN detected"
            /\ r.calls.list = 0 /\ r.calls.change = 0 /\ r.calls.cacheWrite = 0
            /\ cacheFile = r.cache0 /\ r53Record = r.rec0
    /\ (r.proxyEnv = "true" /\ r.cfg.SkipProxy)
         => /\ r.calls.proxy = 0
            /\ r.err # "proxy/VPN detected"
            /\ r.pc \in {"newClient", "getDNS", "update", "refreshCache",
                         "writeCache", "exited"}
            /\ (Exited(r) /\ r.calls.list = 0)
                 => r.err = "failed to create Route53 client"

C4_Witness ==
  \E p \in Procs :
    LET r == run[p] IN
    /\ Exited(r) /\ r.err = "proxy/VPN detected" /\ r.proxyRes = "true"
    /\ ~r.cfg.SkipProxy /\ r.flags.ip = "" /\ r.calls.proxy = 1

\* C5: the proxy check is fail-closed: with the check enabled and no --ip, a
\* Route53 write is issued only after the proxy-detection call completed and
\* reported "not a proxy".
C5_ProxyFailClosed ==
  \A p \in Procs :
    LET r == run[p] IN
    (ProxyCheckEnabled(r.cfg, r.flags.ip) /\ ConfigValid(r) /\ r.calls.change > 0)
      => r.proxyRes = "false"

\* C6: flags have the highest priority: the Config returned by Load has DryRun
\* (ForceUpdate) equal to --dry-run (--force) whenever that flag was set.
C6_FlagsOverride ==
  \A p \in Procs :
    LET r == run[p] IN
    (r.body /\ r.cfg # NoConfig)
      => /\ FlagIsSet(r.flags.dryRun) => r.cfg.DryRun = FlagBool(r.flags.dryRun)
         /\ FlagIsSet(r.flags.force) => r.cfg.ForceUpdate = FlagBool(r.flags.force)

\* C7: when a configuration file is resolved, the subcommand body runs only if
\* the file's mode is exactly 0600 or 0400; any other mode ends the process
\* with a non-zero status before the body.
C7_PermissionGate ==
  \A p \in Procs :
    LET r == run[p] IN
    r.file.kind # "none" =>
      /\ r.body => (r.file.exists /\ r.file.mode \in {ConfigFilePerm, SecureConfigPerm})
      /\ (r.file.mode \notin {ConfigFilePerm, SecureConfigPerm} /\ r.pc # "initConfig")
           => /\ Exited(r) /\ r.exitCode # 0 /\ ~r.body
              /\ r.calls = NoCalls /\ r.cfg = NoConfig

C7_Witness ==
  \E p \in Procs :
    LET r == run[p] IN
    /\ Exited(r) /\ r.exitCode = 1 /\ ~r.body
    /\ r.file.exists /\ r.file.mode = Mode0644

\* the case of C8: the invocation before wrote Y to Route53 and its cache write
\* failed; this one has current IP Y, force false, a successful record lookup,
\* and has ended
C8_Case(r) ==
  /\ r.cmd = "update"
  /\ prev # "" /\ r.currentIP = prev
  /\ ~r.cfg.ForceUpdate
  /\ r.calls.list = 1 /\ r.dnsErr = ""
  /\ Exited(r)

\* C8 as stated: that next run issues no Route53 write, writes Y to the cache
\* and exits successfully, so that cache and record agree again (stated for
\* the runs in which writeCachedIP returns).
C8_Original ==
  \A p \in Procs :
    LET r == run[p] IN
    (C8_Case(r) /\ r.cwRes # "panic")
               => /\ r.calls.change = 0
                  /\ r.exitCode = 0
                  /\ FileHolds(cacheFile, r.currentIP)
                  /\ r53Record = r.currentIP

\* C8 (amended): that next run issues no Route53 write and calls writeCachedIP
\* once; if that call returns nil the run exits successfully with Y in the
\* cache, so that cache and record agree again; if it returns an error the run
\* also exits successfully, and in every other outcome the cache does not hold Y.
C8_NextRunHealsCache ==
  \A p \in Procs :
    LET r == run[p] IN
    C8_Case(r) => /\ r.calls.change = 0
                  /\ r.calls.cacheWrite = 1
                  /\ r53Record = r.currentIP
                  /\ r.cwRes = "ok" => /\ r.exitCode = 0
                                       /\ FileHoldsAt(cacheFile, r.currentIP, r.started)
                  /\ r.cwRes = "err" => r.exitCode = 0
                  /\ r.cwRes # "ok" => ~FileHolds(cacheFile, r.currentIP)

C8_Witness ==
  \E p \in Procs :
    LET r == run[p] IN
    /\ C8_Case(r) /\ r.cwRes = "ok" /\ r.exitCode = 0
    /\ r.calls.change = 0
    /\ FileHolds(cacheFile, prev) /\ r53Record = prev

\* C9: in quiet mode update still emits every warning (proxy check failed,
\* record lookup failed, cache write failed), the confirmation of a successful
\* update and every fatal error.
C9_QuietKeepsWarnings ==
  \A p \in Procs :
    LET r == run[p] IN
    r.flags.quiet =>
      /\ r.proxyRes = "err" => "WarnProxyFailed" \in r.out
      /\ r.dnsErr # "" => "WarnDNSLookup" \in r.out
      /\ r.cwRes = "err" => "WarnCacheWrite" \in r.out
      /\ r.wrote # "" => "Success" \in r.out
      /\ r.exitCode = 1 => (r.out \cap {"Fatal", "InitError"}) # {}

\* C10: Validate checks access key, secret key, hosted-zone id, hostname and
\* TTL > 0 in this order, returns the error of the first that fails, and
\* returns nil exactly when all five hold.
C10_ValidateOrder ==
  \A p \in Procs :
    LET r == run[p]
        c == r.cfg
    IN r.pc = "validated" =>
         /\ r.err = "" <=> /\ c.AWSAccessKey # "" /\ c.AWSSecretKey # ""
                           /\ c.HostedZoneID # "" /\ c.Hostname # "" /\ c.TTL > 0
         /\ c.AWSAccessKey = "" => r.err = "aws_access_key is required in config file"
         /\ (c.AWSAccessKey # "" /\ c.AWSSecretKey = "")
              => r.err = "aws_secret_key is required in config file"
         /\ (c.AWSAccessKey # "" /\ c.AWSSecretKey # "" /\ c.HostedZoneID = "")
              => r.err = "hosted_zone_id is required"
         /\ (c.AWSAccessKey # "" /\ c.AWSSecretKey # "" /\ c.HostedZoneID # ""
               /\ c.Hostname = "")
              => r.err = "hostname is required"
         /\ (c.AWSAccessKey # "" /\ c.AWSSecretKey # "" /\ c.HostedZoneID # ""
               /\ c.Hostname # "" /\ c.TTL <= 0)
              => r.err = "ttl must be positive"

C10_Witness ==
  \E p \in Procs :
    LET r == run[p] IN
    /\ r.pc = "validated" /\ r.err = "ttl must be positive"
    /\ r.cfg.TTL = 0 /\ r.cfg.Hostname # ""

\* a configuration that config.Load() hands over and that lacks a required
\* field or has a TTL that is not positive
FailsValidation(c) ==
  \/ c.AWSAccessKey = "" \/ c.AWSSecretKey = "" \/ c.HostedZoneID = ""
  \/ c.Hostname = "" \/ c.TTL <= 0

\* C11: in `update` and in `verify` a configuration that fails validation is
\* rejected before any network call: the command returns an error, has called
\* neither the public-IP service, the proxy service, Route53 nor a resolver,
\* and has neither read nor written the cache file.
C11_InvalidRejectedBeforeNetwork ==
  \A p \in Procs :
    LET r == run[p] IN
    (r.body /\ Load(r.file, r.flags).err = "" /\ FailsValidation(r.cfg))
      => /\ Exited(r) /\ r.exitCode = 1 /\ r.err # ""
         /\ r.calls = NoCalls
         /\ cacheFile = r.cache0 /\ r53Record = r.rec0

C11_Witness ==
  \E p \in Procs :
    LET r == run[p] IN
    /\ r.cmd = "verify" /\ Exited(r) /\ r.err = "hostname is required"
    /\ r.file.kind = "plain" /\ r.file.ttl = DefaultTTL /\ cacheFile.exists

\* C14: `verify` exits with status 0 in every run in which the configuration
\* is loaded (and valid), whatever the public-IP lookup, the Route53 lookup
\* and the resolvers return.
C14_VerifyExitsZero ==
  \A p \in Procs :
    LET r == run[p] IN
    (r.cmd = "verify" /\ ConfigValid(r) /\ Exited(r)) => r.exitCode = 0

\* C15: nothing is retried: in one `update` the public-IP lookup, the proxy
\* call, the record listing and the change call are each made at most once,
\* and after one of them has failed fatally no further external call is made.
C15_NoRetry ==
  \A p \in Procs :
    LET r == run[p] IN
    r.cmd = "update" =>
      /\ r.calls.publicIP <= 1 /\ r.calls.proxy <= 1
      /\ r.calls.list <= 1 /\ r.calls.change <= 1
      /\ r.err = "failed to get public IP"
           => /\ Exited(r) /\ r.calls = [NoCalls EXCEPT !.publicIP = 1]
      /\ r.err = "proxy/VPN detected"
           => /\ Exited(r)
              /\ r.calls.list = 0 /\ r.calls.change = 0 /\ r.calls.cacheWrite = 0
      /\ r.err = "failed to update Route53"
           => /\ Exited(r) /\ r.calls.change = 1 /\ r.calls.cacheWrite = 0
              /\ r.wrote = "" /\ cacheFile = r.cache0

C15_Witness ==
  \E p \in Procs :
    LET r == run[p] IN
    /\ r.cmd = "update" /\ Exited(r) /\ r.err = "failed to update Route53"
    /\ r.calls.publicIP = 1 /\ r.calls.proxy = 1 /\ r.calls.list = 1
    /\ r.calls.change = 1

\* C12: for all pairs of printable credential strings (a, s),
\* DecryptCredentials(EncryptCredentials(a, s)) on the same device returns
\* exactly (a, s).
C12_DecryptInvertsEncrypt ==
  \A p \in Procs :
    LET r == run[p] IN
    (r.pc = "loaded" /\ r.reader = r.writer /\ ~r.damaged)
      => /\ r.dec.err = ""
         /\ r.dec.accessKey = r.accessKey
         /\ r.dec.secretKey = r.secretKey

\* C13: a secure file written on one device never loads on a device with a
\* different device identifier: LoadSecure returns an error and no Config.
C13_ForeignFileNeverLoads ==
  \A p \in Procs :
    LET r == run[p] IN
    (r.pc = "loaded" /\ DeviceID(r.reader) # DeviceID(r.writer))
      => /\ r.loaded.err # ""
         /\ r.loaded.cfg = NoConfig
         /\ r.dec.accessKey = <<>> /\ r.dec.secretKey = <<>>

C13_Witness ==
  \E p \in Procs :
    LET r == run[p] IN
    /\ r.pc = "loaded" /\ ~r.damaged
    /\ r.writer = UDM("SN1") /\ r.reader = UDM("SN2")
    /\ r.accessKey = <<"A", "A">> /\ r.secretKey = <<"A">>
    /\ r.loaded.err = "failed to decrypt credentials"

\* the record sets of a listing whose name is the FQDN of the client's
\* hostname and whose type is A
MatchingSets(r) ==
  { i \in 1..Len(r.sets) :
      r.sets[i].name = FQDN(r.hostname) /\ r.sets[i].type = "A" }

First(S) == CHOOSE i \in S : \A j \in S : i <= j

\* a GetCurrentIP call for a non-empty hostname whose listing was answered
C16_Case(r) == r.pc \in {"read", "updated"} /\ r.hostname # <<>> /\ r.listOK

\* C16 as stated: GetCurrentIP returns the first value of the first returned
\* record set whose name is the trailing-dot FQDN and whose type is A, and
\* 'A record not found' if no returned record set matches.
C16_Original ==
  \A p \in Procs :
    LET r == run[p] IN
    C16_Case(r) =>
      IF MatchingSets(r) # {}
      THEN /\ r.got.err = ""
           /\ r.sets[First(MatchingSets(r))].values # <<>>
           /\ r.got.ip = r.sets[First(MatchingSets(r))].values[1]
      ELSE r.got.err = "A record not found" /\ r.got.ip = ""

\* C16 (amended): GetCurrentIP returns the first value of the first returned
\* record set that has the FQDN as name, type A and at least one value; if no
\* returned record set is such, it returns 'A record not found' and no value.
C16_FirstMatchingValue ==
  \A p \in Procs :
    LET r == run[p]
        withValue == { i \in MatchingSets(r) : r.sets[i].values # <<>> }
    IN C16_Case(r) =>
         /\ ~r.got.panic
         /\ IF withValue # {}
            THEN r.got.err = "" /\ r.got.ip = r.sets[First(withValue)].values[1]
            ELSE r.got.err = "A record not found" /\ r.got.ip = ""

C16_Witness ==
  \E p \in Procs :
    LET r == run[p] IN
    /\ C16_Case(r) /\ r.hostname = <<"home.example.com">>
    /\ Len(r.sets) = 2 /\ r.sets[1].type = "AAAA"
    /\ r.sets[1].name = <<"home.example.com", ".">> /\ r.sets[1].values # <<>>
    /\ MatchingSets(r) = {2} /\ r.sets[2].values = <<"2.2.2.2", "1.1.1.1">>
    /\ r.got.ip = "2.2.2.2"

\* C17: UpdateIP in dry-run mode makes no call to the Route53 API and returns
\* success; in normal mode it submits exactly one change batch holding a
\* single UPSERT of the A record.
C17_DryRunNoCallElseOneUpsert ==
  \A p \in Procs :
    LET r == run[p] IN
    (r.pc = "updated" /\ r.hostname # <<>>) =>
      /\ r.dryRun => (r.upd.requests = <<>> /\ r.upd.err = "" /\ ~r.upd.panic)
      /\ ~r.dryRun =>
           /\ Len(r.upd.requests) = 1
           /\ Len(r.upd.requests[1].Changes) = 1
           /\ r.upd.requests[1].Changes[1] =
                [Action |-> "UPSERT", Name |-> FQDN(r.hostname), Type |-> "A",
                 TTL |-> DefaultTTL, Values |-> <<r.newIP>>]

C17_Witness ==
  \E p \in Procs :
    LET r == run[p] IN
    /\ r.pc = "updated" /\ r.dryRun /\ r.hostname = <<"home.example.com", ".">>
    /\ r.upd.requests = <<>> /\ "DryRunWouldUpdate" \in r.upd.out

\* the IP address a cache file stores: that of the `last_known_ip:` line of
\* the two-line format, or the bare address of the legacy format; "" for a
\* missing file and for one from which no address can be parsed
StoredIP(f) ==
  IF ~f.exists THEN ""
  ELSE LET keyed == { ip \in IPv4s \cup IPv6s :
                        \E i \in 1..Len(f.lines) :
                          /\ f.lines[i] = <<"last_known_ip:", " ", ip>>
                          /\ \A j \in 1..(i - 1) : ~HasPrefix(f.lines[j], "last_known_ip:") }
           bare == { ip \in IPv4s \cup IPv6s :
                       TrimSpace(JoinLines(f.lines)) = <<ip>> }
       IN IF keyed # {} THEN CHOOSE ip \in keyed : TRUE
          ELSE IF bare # {} THEN CHOOSE ip \in bare : TRUE
          ELSE ""

\* C18 as stated: readCachedIP returns the IP last stored in the cache file in
\* either format: after a successful writeCachedIP(path, ip) it returns ip,
\* for a file holding only a bare IP line it returns that IP, and a missing or
\* unparseable file reads as the empty string.
C18_Original ==
  \A p \in Procs :
    LET r == run[p] IN
    /\ (r.pc = "reread" /\ r.wres = "ok") => r.read = r.ip
    /\ r.pc = "read" => r.read = StoredIP(r.file0)

\* the text after `last_known_ip:` on the first line that starts so, without
\* the white space around it; "none" if no line starts so
KeyedText(f) ==
  LET hits == { i \in 1..Len(f.lines) : HasPrefix(f.lines[i], "last_known_ip:") }
      line == f.lines[First(hits)]
  IN IF ~f.exists \/ hits = {} THEN "none"
     ELSE Concat(TrimSpace(SubSeq(line, 2, Len(line))))

\* C18 (amended): after a successful writeCachedIP(path, ip) readCachedIP
\* returns ip; of a file with a `last_known_ip:` line it returns the text of
\* the first such line, an IP address or not; of a file without such a line it
\* returns the bare IP address the file holds, and "" if the file is missing
\* or holds no address.
C18_ReadAfterWriteAndLegacy ==
  \A p \in Procs :
    LET r == run[p] IN
    /\ (r.pc = "reread" /\ r.wres = "ok") => r.read = r.ip
    /\ r.pc = "read" =>
         r.read = (IF KeyedText(r.file0) # "none" THEN KeyedText(r.file0)
                   ELSE StoredIP(r.file0))

C18_Witness ==
  \E p \in Procs :
    LET r == run[p] IN
    /\ r.pc = "reread" /\ r.wres = "ok"
    /\ r.file0 = LegacyFile("1.1.1.1") /\ r.ip = "2.2.2.2" /\ r.read = "2.2.2.2"

\* C19: the uninstall flow removes the cron entry, the boot script, the
\* symlink and the installed binary directory, and leaves the configuration
\* directory and every file in it unchanged, from any installed state.
C19_UninstallKeepsConfig ==
  \A p \in Procs :
    LET r == run[p] IN
    (r.pc # "idle" /\ r.pc # "shell" /\ r.action = "uninstall") =>
      /\ r.fs.configDir = r.fs0.configDir
      /\ (r.pc = "done" /\ r.exit = 0) =>
           /\ ~r.fs.cron /\ ~r.fs.bootScript
           /\ ~r.fs.binLink /\ ~r.fs.updLink
           /\ r.fs.installDir = NoInstallDir

C19_Witness ==
  \E p \in Procs :
    LET r == run[p] IN
    /\ r.pc = "done" /\ r.exit = 0 /\ r.action = "uninstall" /\ now = 2
    /\ r.fs0.cron /\ r.fs0.bootScript /\ r.fs0.binLink /\ r.fs0.installDir.binary = "v2"
    /\ r.fs.configDir.config = "user" /\ r.fs.configDir.cache = "ip"
    /\ ~r.fs.cron /\ ~r.fs.installDir.exists

C21_AllProfilesUseHardwareID ==
  \A p \in SeqProcs :
    run[p].pc # "start" =>
      /\ run[p].profile \in ProfileNames
      /\ Profile[run[p].profile].UseHardwareID

\* C27: for every target path CreateDefault(path) creates the parent directory
\* of path and writes the template at exactly path with mode 0600, or returns
\* an error; it creates no directory besides the parent of path (and those
\* above it) and never panics
C27_CreateDefaultParentAndFile ==
  \A p \in SeqProcs :
    LET r == run[p]
        c == r.created
        parent == Dir(r.configPath, r.env.goos)
    IN (r.pc = "done" /\ r.cmd = "config init" /\ r.err # "config file already exists") =>
         /\ ~c.panic
         /\ c.made \subseteq AllDirs(parent, r.env.goos)
         /\ c.err = "" =>
              /\ parent \in c.disk.dirs
              /\ FileAt(c.disk, r.configPath) =
                   {[path |-> r.configPath, mode |-> ConfigFilePerm,
                     content |-> Template(Concat(GetCachePath(r.profile, r.env)))]}

\* C30: writeCachedIP(path, ip) returns nil or an error for every path and
\* never panics, also for a path without "/" (a bare file name, the cache
\* path of the windows profile)
C30_WriteCachedIPNeverPanics ==
  \A p \in SeqProcs :
    (run[p].pc = "done" /\ run[p].cmd = "update") => run[p].cwRes \in {"ok", "err"}

\* C22: MigrateToSecure overwrites or deletes the plaintext file only after
\* the secure file has been written successfully; if loading the
\* configuration or SaveSecure fails, an error is returned and the plaintext
\* file is as it was
SecureWritten(r) ==
  /\ r.secure.exists /\ r.secure.kind = "secure" /\ r.secure.mode = SecureConfigPerm
  /\ LoadSecure(r.secure).cfg.AWSAccessKey = r.cfg.AWSAccessKey
  /\ LoadSecure(r.secure).cfg.AWSSecretKey = r.cfg.AWSSecretKey
  /\ r.secure.zone = r.cfg.HostedZoneID /\ r.secure.hostname = r.cfg.Hostname

C22_WipeOnlyAfterSecureWritten ==
  \A p \in SeqProcs :
    LET r == run[p] IN
    /\ r.plain # r.plain0 => (r.saved /\ SecureWritten(r))
    /\ (r.loadErr # "" \/ r.saveErr # "") =>
         (r.pc = "exited" /\ r.exitCode = 1 /\ r.err # "" /\ r.plain = r.plain0)

C22_Witness ==
  \E p \in SeqProcs :
    LET r == run[p] IN
    /\ r.pc = "exited" /\ r.exitCode = 0
    /\ r.plain0.exists /\ r.plain0.kind = "plain" /\ r.plain0.access = "AKIA"
    /\ ~r.plain.exists
    /\ SecureWritten(r) /\ r.cfg.AWSAccessKey = "AKIA"

\* C23: within one `update` invocation the external steps occur only in the
\* order current-IP acquisition, cache read, proxy check, Route53 record
\* read, Route53 write, cache write, each at most once; the proxy check, when
\* it is due, precedes the Route53 read, and the cache file is written only
\* after a Route53 read or write of the same invocation has succeeded
C23_StepOrder ==
  [][\A p \in SeqProcs :
       LET r == run[p]
           a == run[p].calls
           b == run'[p].calls
       IN (r.pc # "idle" /\ r.cmd = "update" /\ run'[p].started = r.started) =>
            /\ b.publicIP > a.publicIP =>
                 (b.publicIP = 1 /\ a = NoCalls /\ r.currentIP = "")
            /\ b.cacheRead > a.cacheRead =>
                 /\ b.cacheRead = 1 /\ r.currentIP # ""
                 /\ a.proxy = 0 /\ a.list = 0 /\ a.change = 0 /\ a.cacheWrite = 0
            /\ b.proxy > a.proxy =>
                 /\ b.proxy = 1 /\ a.cacheRead = 1
                 /\ a.list = 0 /\ a.change = 0 /\ a.cacheWrite = 0
            /\ b.list > a.list =>
                 /\ b.list = 1 /\ a.cacheRead = 1 /\ a.change = 0 /\ a.cacheWrite = 0
                 /\ (~r.cfg.SkipProxy /\ r.flags.ip = "") =>
                      (a.proxy = 1 /\ r.proxyRes # "true")
            /\ b.change > a.change =>
                 (b.change = 1 /\ a.list = 1 /\ a.cacheWrite = 0)
            /\ b.cacheWrite > a.cacheWrite =>
                 /\ b.cacheWrite = 1 /\ a.list = 1
                 /\ \/ r.dnsErr = "" /\ r.dnsIP = r.currentIP
                    \/ a.change = 1 /\ r.wrote = r.currentIP /\ r53Record = r.currentIP
    ]_vars

C23_Witness ==
  \E p \in SeqProcs :
    LET r == run[p] IN
    /\ r.pc = "exited" /\ r.cmd = "update" /\ r.exitCode = 0
    /\ r.calls = [NoCalls EXCEPT !.publicIP = 1, !.cacheRead = 1, !.proxy = 1,
                                 !.list = 1, !.change = 1, !.cacheWrite = 1]
    /\ r.cwRes = "ok" /\ r53Record = r.currentIP

C26_LookupFailureContinues ==
  \A p \in SeqProcs :
    LET r == run[p] IN
    (r.cmd = "update" /\ r.dnsErr # "" /\ ~r.cfg.DryRun) =>
      /\ r.pc \in {"update", "writeCache", "exited"}
      /\ r.pc = "writeCache" =>
           (r.calls.change = 1 /\ r.wrote = r.currentIP /\ r53Record = r.currentIP)
      /\ r.pc = "exited" =>
           /\ r.calls.change = 1
           /\ r.wrote = "" => (r.exitCode = 1 /\ r.err = "failed to update Route53"
                               /\ r.calls.cacheWrite = 0)
           /\ r.wrote # "" =>
                /\ r.wrote = r.currentIP /\ r53Record = r.currentIP
                /\ r.calls.cacheWrite = 1
                /\ r.cwRes = "ok" =>
                     (r.exitCode = 0 /\ FileHoldsAt(cacheFile, r.currentIP, r.started))

C26_Witness ==
  \E p \in SeqProcs :
    LET r == run[p] IN
    /\ r.cmd = "update" /\ r.pc = "exited" /\ r.exitCode = 0
    /\ r.rec0 = NoRecord /\ r.dnsErr = "A record not found"
    /\ r.calls.change = 1 /\ r53Record = r.currentIP
    /\ r.cwRes = "ok" /\ FileHoldsAt(cacheFile, r.currentIP, r.started)

\* C29: every value `update` submits to Route53 as the value of the A record,
\* and every value it writes to the cache file, is a syntactically valid IPv4
\* address, whether it came from --ip or from the public-IP service
C29_OnlyIPv4Submitted ==
  \A p \in SeqProcs :
    LET r == run[p] IN
    (r.cmd = "update" /\ (r.calls.change > 0 \/ r.calls.cacheWrite > 0)) =>
      r.currentIP \in IPv4s

Agree(f, rec) == \A x \in IPv4s : FileHolds(f, x) => rec = x

C24_StaleCacheHit ==
  LET r == run[LateProc] IN
  (r.pc = "exited" /\ r.calls.cacheRead = 1 /\ ~r.cfg.ForceUpdate
     /\ FileHolds(r.cache0, r.currentIP)) =>
    /\ r.exitCode = 0 /\ r.cachedIP = r.currentIP
    /\ r.calls.list = 0 /\ r.calls.change = 0 /\ r.calls.cacheWrite = 0
    /\ r53Record = r.rec0 /\ cacheFile = r.cache0

C24_Witness ==
  \E x \in IPv4s, y \in IPv4s :
    /\ x # y
    /\ run[1].pc = "exited" /\ run[1].exitCode = 0 /\ run[1].currentIP = x
    /\ run[2].pc = "exited" /\ run[2].exitCode = 0 /\ run[2].currentIP = y
    /\ \A q \in OverlapProcs :
         /\ run[q].cache0 = AbsentFile /\ run[q].cachedIP = ""
         /\ run[q].calls.change = 1 /\ run[q].cwRes = "ok"
    /\ run[LateProc].pc = "exited" /\ run[LateProc].exitCode = 0
    /\ run[LateProc].currentIP = x /\ run[LateProc].cachedIP = x
    /\ run[LateProc].calls.list = 0
    /\ FileHolds(cacheFile, x) /\ r53Record = y

====
